---- MODULE Spec2Model ----
(***************************************************************************)
(* Verification model of the oric-toolbox tape pipeline (tapeio module):   *)
(* the TapeParser file state machine, the TapeDecoder merger, the 13-bit   *)
(* byte framing shared by the decoder back-ends, and the windowed byte     *)
(* emission of the back-ends.                                              *)
(*                                                                         *)
(* The parser is modelled on a record holding the fields of class          *)
(* TapeParser; every method is an operator from parser record to parser    *)
(* record, so that a handler which calls other methods (PutByte calls      *)
(* Flush, FlushPayload, OnFile) is one atomic action.  The field `out` is  *)
(* the list of OnFile calls, each with the value of m_payload_offs at the  *)
(* call.  A TapeFile's payload array is represented by the prefix that has *)
(* been written since the struct was last copied from the (all zero)       *)
(* scout payload.  The start_time / end_time annotations of TapeFile and   *)
(* the verbose hex dump are not modelled.                                  *)
(***************************************************************************)
EXTENDS Integers, Naturals, Sequences, FiniteSets, TLC

VARIABLES
    m_section_type,          \* TapeParser::m_section_type
    m_section_offs,          \* TapeParser::m_section_offs
    m_slow,                  \* TapeParser::m_slow
    m_consecutive_non_16,    \* TapeParser::m_consecutive_non_16
    m_consecutive_bad_bytes, \* TapeParser::m_consecutive_bad_bytes
    m_scout_file,            \* TapeParser::m_scout_file
    m_payload_active,        \* TapeParser::m_payload_active
    m_payload_offs,          \* TapeParser::m_payload_offs
    m_payload_file,          \* TapeParser::m_payload_file
    out,                     \* the OnFile calls made so far
    hist,                    \* the last bytes put, with the state each met
    flushed,                 \* Flush has been called for the end of the tape
    archive,                 \* the archive being read, if any
    tape,                    \* the bytes of the archive not yet read
    dbyte,                   \* the byte a back-end has just decoded
    m_options,               \* TapeDecoder: the DecoderOptions it was opened with
    m_select_fast,           \* TapeDecoder: fast format selected
    m_select_slow,           \* TapeDecoder: slow format selected
    m_backend0_byte_ok,      \* TapeDecoder: peek buffer of back-end 0 is filled
    m_backend0_byte,
    m_backend1_byte_ok,      \* TapeDecoder: peek buffer of back-end 1 is filled
    m_backend1_byte,
    produced,                \* bytes the back-ends have decoded so far
    fed,                     \* bytes put to the parser: the last one before
                             \* the latest ReadByte call, then those of the call
    returned,                \* the last two bytes returned by ReadByte
    picked,                  \* the bytes the latest ReadByte call picked, and
                             \* what it did with each
    dual,                    \* a DualDecoder, times in samples
    demod,                   \* a DemodDecoder, times in samples
    emitted,                 \* the last two bytes a windowed back-end emitted
    encoder,                 \* a TapeEncoder and the bits of its latest byte
    source,                  \* a FileBackend and the threads reading from it
    player,                  \* a SoundPlayer, its refill thread and its caller
    recorder,                \* a SoundRecorder, its callback and its reader
    session                  \* a run of one command of the tool

pvars == <<m_section_type, m_section_offs, m_slow, m_consecutive_non_16,
           m_consecutive_bad_bytes, m_scout_file, m_payload_active,
           m_payload_offs, m_payload_file, out>>

avars == <<archive, tape>>

\* the state outside the parser and its environment
dvars == <<m_options, m_select_fast, m_select_slow, m_backend0_byte_ok,
           m_backend0_byte, m_backend1_byte_ok, m_backend1_byte, produced,
           fed, returned, picked>>

wvars == <<dual, demod, emitted>>

svars == <<source, player, recorder, session>>

others == <<dbyte, dvars, wvars, encoder, svars>>

vars == <<pvars, hist, flushed, avars, others>>

-----------------------------------------------------------------------------
(* Program constants *)

ST_SYNC == 0
ST_HEADER == 1
ST_NAME == 2

HeaderCapacity == 9
NameCapacity == 17
PayloadCapacity == 65536
InitialConsecutive == 100
PadByte == 205

(* Model bounds *)

MaxRun == 8       \* cap of the two run counters, above their reset value
MaxSyncRun == 11  \* cap of m_section_offs in the SYNC section
MaxFiles == 1     \* OnFile calls after which the sync environment stops
MaxEmitted == 2   \* OnFile calls after which the file environment stops
MaxRouted == 2    \* payload bytes routed per file while lengths are studied
MaxPayload == 4   \* longest payload of an archive record
MaxTime == 2      \* latest onset time of a decoded byte
MaxDecoded == 4   \* bytes the back-ends of a tape decode in total
WindowQuarter == 2 \* a quarter of the analysis window, in samples
MaxEnd == 8       \* length of the waveform, in samples
MaxEvents == 1    \* byte events a byte decoder finds in one window

-----------------------------------------------------------------------------
(* Integer helpers: C's bitwise AND on int, by bits *)

RECURSIVE BitAnd(_, _, _)
BitAnd(a, b, n) ==
    IF n = 0 THEN 0
    ELSE (IF a % 2 = 1 /\ b % 2 = 1 THEN 1 ELSE 0)
         + 2 * BitAnd(a \div 2, b \div 2, n - 1)

RECURSIVE BitXor(_, _, _)
BitXor(a, b, n) ==
    IF n = 0 THEN 0
    ELSE (IF a % 2 # b % 2 THEN 1 ELSE 0)
         + 2 * BitXor(a \div 2, b \div 2, n - 1)

IntBits == 20

\* low IntBits bits of the two's complement pattern of the C int x
TwosComplement(x) == IF x < 0 THEN x + 2^IntBits ELSE x

\* x & mask for a C int x and a non-negative mask below 2^IntBits
AndMask(x, mask) == BitAnd(TwosComplement(x), mask, IntBits)

-----------------------------------------------------------------------------
(* TapeFile and the parser record *)

Zeros(n) == [i \in 1..n |-> 0]

\* memset(&file, 0, sizeof(file))
ZeroFile ==
    [header |-> Zeros(HeaderCapacity), start_addr |-> 0, end_addr |-> 0,
     len |-> 0, basic |-> FALSE, autorun |-> FALSE, slow |-> FALSE,
     name |-> Zeros(NameCapacity), payload |-> <<>>,
     sync_errors |-> 0, parity_errors |-> 0]

Bool2Int(x) == IF x THEN 1 ELSE 0

\* TapeParser::Reset; the OnFile log is not parser state and is kept
Reset(p) ==
    [p EXCEPT !.section_type = ST_SYNC,
              !.section_offs = 0,
              !.slow = FALSE,
              !.consecutive_non_16 = InitialConsecutive,
              !.consecutive_bad_bytes = InitialConsecutive,
              !.payload_active = FALSE,
              !.payload_offs = 0,
              !.scout_file = ZeroFile,
              !.payload_file = ZeroFile]

\* TapeParser::TapeParser
NewParser ==
    [section_type |-> ST_SYNC, section_offs |-> 0, slow |-> FALSE,
     consecutive_non_16 |-> InitialConsecutive,
     consecutive_bad_bytes |-> InitialConsecutive,
     payload_active |-> FALSE, payload_offs |-> 0,
     scout_file |-> ZeroFile, payload_file |-> ZeroFile,
     out |-> <<>>]

\* TapeParser::IsIdle
IsIdle(p) == p.section_type = ST_SYNC /\ ~p.payload_active

\* TapeParser::OnFile, observed: the file and m_payload_offs at the call
OnFile(p) ==
    [p EXCEPT !.out = Append(@, [file |-> p.payload_file,
                                 offs |-> p.payload_offs])]

\* variant of the padding loop that pads nothing
PadPayload_None(p) == p

\* the padding loop of FlushPayload: while (missing_bytes--) ...
PadPayload(p) ==
    LET missing == p.payload_file.len - p.payload_offs
    IN  [p EXCEPT
           !.payload_file.payload =
               @ \o [i \in 1..missing |-> PadByte],
           !.payload_offs = @ + missing,
           !.payload_file.sync_errors = @ + missing,
           !.payload_file.parity_errors = @ + missing]

\* TapeParser::FlushPayload
FlushPayload(p) ==
    IF p.payload_active
    THEN [OnFile(PadPayload(p)) EXCEPT !.payload_active = FALSE]
    ELSE p

\* TapeParser::Flush
Flush(p) == Reset(FlushPayload(p))


-----------------------------------------------------------------------------
(* TapeParser::PutByte, in the order of its statements *)

\* variant of the format change that only records the new format
FormatChange_NoFlush(p, b) == [p EXCEPT !.slow = b.slow]

\* if (m_slow != b.slow) { if (!IsIdle()) Flush(); m_slow = b.slow; }
FormatChange(p, b) ==
    IF p.slow # b.slow
    THEN [(IF ~IsIdle(p) THEN Flush(p) ELSE p) EXCEPT !.slow = b.slow]
    ELSE p

\* if (m_payload_active) { ... }
RoutePayload(p, b) ==
    IF p.payload_active
    THEN LET q == [p EXCEPT
                     !.payload_file.payload = Append(@, b.byte),
                     !.payload_offs = @ + 1,
                     !.payload_file.sync_errors = @ + Bool2Int(b.sync_error),
                     !.payload_file.parity_errors =
                         @ + Bool2Int(b.parity_error /\ ~b.sync_error)]
         IN  IF q.payload_offs = q.payload_file.len
             THEN [OnFile(q) EXCEPT !.payload_active = FALSE]
             ELSE q
    ELSE p

\* the two run counters
CountRuns(p, b) ==
    [p EXCEPT
       !.consecutive_non_16 = IF b.byte # 22 THEN @ + 1 ELSE 0,
       !.consecutive_bad_bytes =
           IF b.sync_error \/ b.parity_error THEN @ + 1 ELSE 0]

\* variants of the tolerance test: counting from the fourth byte only, and
\* requiring both runs to be short
WithinTolerance_OffByOne(p) ==
    /\ p.section_offs > 3
    /\ ~p.payload_active
    /\ (p.consecutive_non_16 < 8 \/ p.consecutive_bad_bytes < 4)

WithinTolerance_And(p) ==
    /\ p.section_offs >= 3
    /\ ~p.payload_active
    /\ (p.consecutive_non_16 < 8 /\ p.consecutive_bad_bytes < 4)

\* the tolerance test of the SYNC section
WithinTolerance(p) ==
    /\ p.section_offs >= 3
    /\ ~p.payload_active
    /\ (p.consecutive_non_16 < 8 \/ p.consecutive_bad_bytes < 4)

\* if (m_section_type == ST_SYNC) { ... }
SyncSection(p, b) ==
    IF b.byte = 22
    THEN [p EXCEPT !.section_offs = @ + 1]
    ELSE IF b.byte = 36 /\ p.section_offs >= 3
    THEN [p EXCEPT !.section_type = ST_HEADER,
                   !.section_offs = 0,
                   !.scout_file.sync_errors = 0,
                   !.scout_file.parity_errors = 0]
    ELSE IF WithinTolerance(p)
    THEN [p EXCEPT !.section_offs = @ + 1]
    ELSE [p EXCEPT !.section_offs = 0]

\* variant of the filetype test that also takes $40 = ARRAY
FiletypeSupported_Array(filetype) ==
    filetype = 0 \/ filetype = 128 \/ filetype = 64

\* filetype == 0x00 || filetype == 0x80
FiletypeSupported(filetype) == filetype = 0 \/ filetype = 128

\* else if (m_section_type == ST_HEADER) { ... }
HeaderSection(p, b) ==
    LET q == [p EXCEPT
                !.scout_file.header[p.section_offs + 1] = b.byte,
                !.section_offs = @ + 1,
                !.scout_file.sync_errors = @ + Bool2Int(b.sync_error),
                !.scout_file.parity_errors =
                    @ + Bool2Int(b.parity_error /\ ~b.sync_error)]
    IN  IF q.section_offs = HeaderCapacity
        THEN IF FiletypeSupported(q.scout_file.header[3])
             THEN [q EXCEPT !.section_type = ST_NAME, !.section_offs = 0]
             ELSE [q EXCEPT !.section_type = ST_SYNC, !.section_offs = 0]
        ELSE q

\* variant of the address assembly taking the low byte first
Addr16_LowFirst(hi, lo) == (lo * 256 + hi) % 65536

\* (((uint16_t) hi) << 8) | lo
Addr16(hi, lo) == (hi * 256 + lo) % 65536

\* variant of the length computation without the 16-bit mask
PayloadLen_Signed(endaddr, startaddr) == (endaddr - startaddr) + 1

\* int len = (endaddr-startaddr); len &= 0xffff; len += 1;
PayloadLen(endaddr, startaddr) == AndMask(endaddr - startaddr, 65535) + 1

\* variant of the start of a file that drops the file in progress
StartFile_NoFlush(p, b) ==
    LET h == p.scout_file.header
        endaddr == Addr16(h[5], h[6])
        startaddr == Addr16(h[7], h[8])
        q == [p EXCEPT
                !.scout_file.start_addr = startaddr,
                !.scout_file.end_addr = endaddr,
                !.scout_file.len = PayloadLen(endaddr, startaddr),
                !.scout_file.autorun = (h[4] # 0),
                !.scout_file.basic = (h[3] = 0),
                !.scout_file.slow = b.slow]
    IN  [q EXCEPT !.payload_active = TRUE,
                  !.payload_offs = 0,
                  !.payload_file = q.scout_file,
                  !.section_type = ST_SYNC,
                  !.section_offs = 0]

\* the body of if (b.byte == 0) in the NAME section
StartFile(p, b) ==
    LET h == p.scout_file.header
        endaddr == Addr16(h[5], h[6])
        startaddr == Addr16(h[7], h[8])
        q == [p EXCEPT
                !.scout_file.start_addr = startaddr,
                !.scout_file.end_addr = endaddr,
                !.scout_file.len = PayloadLen(endaddr, startaddr),
                !.scout_file.autorun = (h[4] # 0),
                !.scout_file.basic = (h[3] = 0),
                !.scout_file.slow = b.slow]
        r == FlushPayload(q)
    IN  [r EXCEPT !.payload_active = TRUE,
                  !.payload_offs = 0,
                  !.payload_file = r.scout_file,
                  !.section_type = ST_SYNC,
                  !.section_offs = 0]

\* variant of the NAME section that starts the file when the name buffer
\* is full instead of rejecting it
NameSection_AcceptLong(p, b) ==
    LET q == [p EXCEPT
                !.scout_file.name[p.section_offs + 1] = b.byte,
                !.section_offs = @ + 1]
    IN  IF b.byte = 0 \/ q.section_offs = NameCapacity
        THEN StartFile(q, b)
        ELSE q

\* variant of the NAME section that never gives a long name up
NameSection_NoLimit(p, b) ==
    LET q == [p EXCEPT
                !.scout_file.name[p.section_offs + 1] = b.byte,
                !.section_offs = @ + 1,
                !.scout_file.sync_errors = @ + Bool2Int(b.sync_error),
                !.scout_file.parity_errors =
                    @ + Bool2Int(b.parity_error /\ ~b.sync_error)]
    IN  IF b.byte = 0
        THEN StartFile(q, b)
        ELSE q

\* else { assert(m_section_type == ST_NAME); ... }
NameSection(p, b) ==
    LET q == [p EXCEPT
                !.scout_file.name[p.section_offs + 1] = b.byte,
                !.section_offs = @ + 1,
                !.scout_file.sync_errors = @ + Bool2Int(b.sync_error),
                !.scout_file.parity_errors =
                    @ + Bool2Int(b.parity_error /\ ~b.sync_error)]
    IN  IF b.byte = 0
        THEN StartFile(q, b)
        ELSE IF q.section_offs = NameCapacity
        THEN [q EXCEPT !.section_type = ST_SYNC, !.section_offs = 0]
        ELSE q

Section(p, b) ==
    IF p.section_type = ST_SYNC THEN SyncSection(p, b)
    ELSE IF p.section_type = ST_HEADER THEN HeaderSection(p, b)
    ELSE NameSection(p, b)

\* TapeParser::PutByte
PutByteOp(p, b) == Section(CountRuns(RoutePayload(FormatChange(p, b), b), b), b)

-----------------------------------------------------------------------------
(* The parser object as state *)

Parser ==
    [section_type |-> m_section_type, section_offs |-> m_section_offs,
     slow |-> m_slow, consecutive_non_16 |-> m_consecutive_non_16,
     consecutive_bad_bytes |-> m_consecutive_bad_bytes,
     payload_active |-> m_payload_active, payload_offs |-> m_payload_offs,
     scout_file |-> m_scout_file, payload_file |-> m_payload_file,
     out |-> out]

SetParser(q) ==
    /\ m_section_type' = q.section_type
    /\ m_section_offs' = q.section_offs
    /\ m_slow' = q.slow
    /\ m_consecutive_non_16' = q.consecutive_non_16
    /\ m_consecutive_bad_bytes' = q.consecutive_bad_bytes
    /\ m_payload_active' = q.payload_active
    /\ m_payload_offs' = q.payload_offs
    /\ m_scout_file' = q.scout_file
    /\ m_payload_file' = q.payload_file
    /\ out' = q.out

ParserInit ==
    /\ m_section_type = NewParser.section_type
    /\ m_section_offs = NewParser.section_offs
    /\ m_slow = NewParser.slow
    /\ m_consecutive_non_16 = NewParser.consecutive_non_16
    /\ m_consecutive_bad_bytes = NewParser.consecutive_bad_bytes
    /\ m_payload_active = NewParser.payload_active
    /\ m_payload_offs = NewParser.payload_offs
    /\ m_scout_file = NewParser.scout_file
    /\ m_payload_file = NewParser.payload_file
    /\ out = NewParser.out


-----------------------------------------------------------------------------
(* Environment: the decoded bytes offered to the parser *)

\* struct DecodedByte
Byte(byte, slow, sync_error, parity_error) ==
    [time |-> 0, slow |-> slow, byte |-> byte,
     parity_error |-> parity_error, sync_error |-> sync_error]

\* a counter stays within MaxRun of zero or of its reset value
RunOk(c) ==
    \/ c <= MaxRun
    \/ c >= InitialConsecutive /\ c <= InitialConsecutive + MaxRun

\* the caps apply where the input is free: to the idle scanner
Bounded(q) ==
    IsIdle(q) =>
        /\ RunOk(q.consecutive_non_16)
        /\ RunOk(q.consecutive_bad_bytes)
        /\ q.section_offs <= MaxSyncRun

\* what one put adds to the history: the byte and the state it met
HistEntry(p, b) ==
    [byte |-> b.byte, idle |-> IsIdle(p), sect |-> p.section_type,
     badrun |-> (p.consecutive_non_16 >= 8 /\ p.consecutive_bad_bytes >= 3)]

\* the history keeps the five last puts, the length of the sequence
\* 0x16 0x16 0x16 X 0x24
PushHist(h, e) ==
    IF Len(h) < 5 THEN Append(h, e) ELSE Append(Tail(h), e)

\* Bytes offered while the sync scanner is studied: free bytes and flags
\* while idle, and an 8-byte file whose payload carries a sync with or
\* without an odd byte, so that the scanner runs with a payload active
SyncMenu(p) ==
    IF IsIdle(p)
    THEN { Byte(v, sl, se, pe) : v \in {22, 36, 65}, sl \in BOOLEAN,
                                 se \in BOOLEAN, pe \in BOOLEAN }
    ELSE IF p.section_type = ST_SYNC
    THEN { Byte(v, sl, FALSE, FALSE) :
             v \in (IF p.section_offs = 3 THEN {36, 65}
                    ELSE IF p.payload_offs < 3 THEN {22} ELSE {36}),
             sl \in (IF p.section_offs = 3 THEN BOOLEAN ELSE {p.slow}) }
    ELSE IF p.section_type = ST_HEADER
    THEN { Byte(v, p.slow, FALSE, FALSE) :
             v \in (IF p.section_offs = 5 THEN {7}
                    ELSE IF p.section_offs = 0 THEN {0, 36} ELSE {0}) }
    ELSE { Byte(0, p.slow, FALSE, FALSE) }

-----------------------------------------------------------------------------
(* Specification Spec: the sync scanner under free input *)

NoArchive == [recs |-> <<>>, layout |-> "none"]

NoByte == [backend |-> "none"]

\* a peek buffer that was never written
NoDecoded == Byte(0, FALSE, FALSE, FALSE)

\* no tape is open
NoDecoder ==
    /\ m_options = [fast |-> FALSE, slow |-> FALSE, dual |-> FALSE,
                    sound |-> FALSE]
    /\ m_select_fast = FALSE
    /\ m_select_slow = FALSE
    /\ m_backend0_byte_ok = FALSE
    /\ m_backend0_byte = NoDecoded
    /\ m_backend1_byte_ok = FALSE
    /\ m_backend1_byte = NoDecoded
    /\ produced = 0
    /\ fed = <<>>
    /\ returned = <<>>
    /\ picked = <<>>

NoBackend == [open |-> FALSE]

\* no windowed back-end was constructed
NoWindows == dual = NoBackend /\ demod = NoBackend /\ emitted = <<>>

\* no sound object was constructed
NoSound ==
    /\ source = NoBackend /\ player = NoBackend
    /\ recorder = NoBackend /\ session = NoBackend

\* no back-end is at work
OthersInit ==
    dbyte = NoByte /\ NoDecoder /\ NoWindows /\ encoder = NoBackend /\ NoSound

Init ==
    /\ ParserInit
    /\ hist = <<>>
    /\ flushed = FALSE
    /\ archive = NoArchive
    /\ tape = <<>>
    /\ OthersInit

\* TapeParser::PutByte on a byte of the sync menu
PutByte ==
    /\ Len(out) < MaxFiles
    /\ \E b \in SyncMenu(Parser) :
         LET q == PutByteOp(Parser, b)
         IN  /\ Bounded(q)
             /\ SetParser(q)
             /\ hist' = PushHist(hist, HistEntry(Parser, b))
             /\ UNCHANGED <<flushed, avars, others>>

Next == PutByte

Spec == Init /\ [][Next]_vars


-----------------------------------------------------------------------------
(* C6, C7: the sync scanner *)

\* the k-th last byte put, with the state it met
Ago(k) == hist[Len(hist) - k + 1]

\* the last five bytes put were 0x16 0x16 0x16 X 0x24, the first of them
\* met by a parser in the SYNC section
SyncPatternPut ==
    /\ Len(hist) >= 5
    /\ Ago(5).sect = ST_SYNC
    /\ Ago(5).byte = 22 /\ Ago(4).byte = 22 /\ Ago(3).byte = 22
    /\ Ago(1).byte = 36

InHeaderAt(n) == m_section_type = ST_HEADER /\ m_section_offs = n

\* C6 as stated: from any state in the SYNC section, 0x16 0x16 0x16 X 0x24
\* leaves the parser in HEADER at offset 0, unless 8 consecutive non-0x16
\* bytes with errors in the last ones precede the sequence
C6_AsStated ==
    (SyncPatternPut /\ ~Ago(5).badrun)
        => InHeaderAt(0)

\* C6 amended: from an idle parser (SYNC section, no payload active),
\* 0x16 0x16 0x16 X 0x24 leaves the parser in HEADER at offset 0 for every
\* X other than 0x24, whatever the error and format flags of the five bytes
\* and whatever preceded them; for X = 0x24 the sync completes at X and the
\* last 0x24 is the first header byte
C6_SyncTolerance ==
    (SyncPatternPut /\ Ago(5).idle)
        => IF Ago(2).byte = 36 THEN InHeaderAt(1) ELSE InHeaderAt(0)

\* an odd byte between the 0x16 run and the 0x24 was tolerated
C6_Witness ==
    /\ SyncPatternPut /\ Ago(5).idle
    /\ Ago(2).byte = 65
    /\ InHeaderAt(0)

\* the parser is in the SYNC section with at least three bytes counted and
\* no payload active
SyncCounted ==
    m_section_type = ST_SYNC /\ m_section_offs >= 3 /\ ~m_payload_active

\* the byte just put is neither 0x16 nor 0x24
OddByte(e) == e.byte # 22 /\ e.byte # 36

C7_WitnessReset ==
    /\ hist # <<>>
    /\ Ago(1).idle /\ OddByte(Ago(1))
    /\ m_consecutive_non_16 = 8
    /\ m_consecutive_bad_bytes = 4
    /\ m_section_type = ST_SYNC /\ m_section_offs = 0


\* with a payload active the odd byte is not tolerated: the sequence does
\* not end in HEADER
C6_StrictWhenActive ==
    /\ SyncPatternPut /\ ~Ago(5).idle /\ ~Ago(5).badrun
    /\ Ago(2).byte = 65
    /\ m_payload_active
    /\ ~InHeaderAt(0)


-----------------------------------------------------------------------------
(* Specification SpecFiles: whole files, by PutByte and Flush *)

\* Bytes offered while files are assembled: a plain sync, headers of
\* supported and unsupported type giving lengths 1 and 16, names of
\* 0, 2, 16 and 17 characters, short payloads of free bytes with and without
\* errors, and a long payload that carries the sync, header and name of a
\* next file.  The format flag may change to slow in the middle of a
\* header.
FilesMenu(p) ==
    IF p.section_type = ST_SYNC
    THEN IF p.payload_active /\ p.payload_file.len <= 2
         THEN { Byte(65, p.slow, e, e) : e \in BOOLEAN }
         ELSE { Byte(IF p.section_offs < 3 THEN 22 ELSE 36,
                     p.slow, FALSE, FALSE) }
    ELSE IF p.section_type = ST_HEADER
    THEN { Byte(v, sl, FALSE, FALSE) :
             v \in (IF p.section_offs = 2 THEN {0, 64}
                    ELSE IF p.section_offs = 5 THEN {0, 15}
                    ELSE {0}),
             sl \in (IF p.section_offs = 4 THEN {p.slow, TRUE}
                     ELSE {p.slow}) }
    ELSE { Byte(v, p.slow, FALSE, FALSE) :
             v \in (IF p.section_offs \in {0, 2, 16} THEN {0, 65} ELSE {65}) }

\* TapeParser::PutByte on a byte of the files menu
PutFileByte ==
    /\ ~flushed
    /\ Len(out) < MaxEmitted
    /\ \E b \in FilesMenu(Parser) : SetParser(PutByteOp(Parser, b))
    /\ UNCHANGED <<hist, flushed, avars, others>>

\* TapeParser::Flush, called once at the end of the tape
FlushCall ==
    /\ ~flushed
    /\ SetParser(Flush(Parser))
    /\ flushed' = TRUE
    /\ UNCHANGED <<hist, avars, others>>

NextFiles == PutFileByte \/ FlushCall

SpecFiles == Init /\ [][NextFiles]_vars

-----------------------------------------------------------------------------
(* C1, C2: emitted files *)

\* C1: whenever OnFile is called, m_payload_offs equals the file's len and
\* exactly len payload bytes have been written (routed or padded)
C1_PayloadComplete ==
    \A i \in 1..Len(out) :
        /\ out[i].offs = out[i].file.len
        /\ Len(out[i].file.payload) = out[i].file.len

\* a file was truncated by the start of a next file and emitted padded
C1_Witness ==
    /\ Len(out) >= 1
    /\ out[1].file.len = 16
    /\ out[1].file.payload[16] = PadByte
    /\ out[1].file.payload[1] # PadByte
    /\ m_payload_active /\ m_payload_offs = 0

\* 1-based position of the first zero of a name, 0 when there is none
FirstZero(name) ==
    IF \E k \in 1..Len(name) : name[k] = 0
    THEN CHOOSE k \in 1..Len(name) :
            name[k] = 0 /\ \A j \in 1..(k - 1) : name[j] # 0
    ELSE 0

\* C2 as stated: every emitted file has name[16] == 0 and the first zero of
\* its name before index 16
C2_AsStated ==
    \A i \in 1..Len(out) :
        /\ out[i].file.name[17] = 0
        /\ FirstZero(out[i].file.name) \in 1..16

\* C2 amended: every emitted file has a zero byte in its 17-byte name
\* buffer, the first one at index 16 or before (index 16 for a name of 16
\* characters)
C2_NameTerminated ==
    \A i \in 1..Len(out) : FirstZero(out[i].file.name) \in 1..17

\* a file with a name of 16 characters, terminated by name[16], was emitted
C2_Witness ==
    \E i \in 1..Len(out) : FirstZero(out[i].file.name) = 17

\* a file was emitted whose name is shorter and whose name[16] is the
\* leftover of a rejected candidate
C2_StaleGuard ==
    \E i \in 1..Len(out) :
        /\ FirstZero(out[i].file.name) = 1
        /\ out[i].file.name[17] # 0


-----------------------------------------------------------------------------
(* Specification SpecLen: headers with boundary addresses *)

\* Bytes offered while lengths are studied: a plain sync, a BASIC header
\* whose four address bytes are each 0x00, 0x01 or 0xff, an empty name,
\* and payload bytes 0x41
LenMenu(p) ==
    IF p.section_type = ST_SYNC
    THEN IF p.payload_active
         THEN { Byte(65, p.slow, FALSE, FALSE) }
         ELSE { Byte(IF p.section_offs < 3 THEN 22 ELSE 36,
                     p.slow, FALSE, FALSE) }
    ELSE IF p.section_type = ST_HEADER
    THEN { Byte(v, p.slow, FALSE, FALSE) :
             v \in (IF p.section_offs \in 4..7 THEN {0, 1, 255} ELSE {0}) }
    ELSE { Byte(0, p.slow, FALSE, FALSE) }

\* TapeParser::PutByte on a byte of the length menu
PutLenByte ==
    /\ ~flushed
    /\ Len(out) < MaxFiles
    /\ m_payload_active => m_payload_offs < MaxRouted
    /\ \E b \in LenMenu(Parser) : SetParser(PutByteOp(Parser, b))
    /\ UNCHANGED <<hist, flushed, avars, others>>

NextLen == PutLenByte \/ FlushCall

SpecLen == Init /\ [][NextLen]_vars

-----------------------------------------------------------------------------
(* C8: payload length *)

\* the two addresses as the header carries them, high byte first
HeaderEnd(f) == f.header[5] * 256 + f.header[6]
HeaderStart(f) == f.header[7] * 256 + f.header[8]

\* the length of file f is ((end - start) mod 65536) + 1, within 1..65536
LengthDerived(f) ==
    /\ f.end_addr = HeaderEnd(f)
    /\ f.start_addr = HeaderStart(f)
    /\ f.len = ((HeaderEnd(f) - HeaderStart(f)) % 65536) + 1
    /\ f.len \in 1..65536
    /\ HeaderStart(f) = HeaderEnd(f) => f.len = 1
    /\ HeaderEnd(f) = (HeaderStart(f) - 1) % 65536 => f.len = 65536

\* C8: for every header the derived length is ((end_addr - start_addr) mod
\* 65536) + 1, in 1..65536, with length 1 for equal addresses and 65536
\* for end_addr = start_addr - 1; every emitted file, one of length 65536
\* included, holds len payload bytes within the payload buffer
C8_Length ==
    /\ m_payload_active => LengthDerived(m_payload_file)
    /\ \A i \in 1..Len(out) :
          /\ LengthDerived(out[i].file)
          /\ Len(out[i].file.payload) = out[i].file.len
          /\ out[i].offs <= PayloadCapacity

\* a file of length 65536 (start 0x0001, end 0x0000) was emitted in full
C8_Witness ==
    /\ Len(out) = 1
    /\ HeaderStart(out[1].file) = 1 /\ HeaderEnd(out[1].file) = 0
    /\ out[1].file.len = 65536
    /\ Len(out[1].file.payload) = 65536
    /\ out[1].file.payload[1] = 65
    /\ out[1].file.payload[65536] = PadByte


-----------------------------------------------------------------------------
(* Specification SpecArchive: reading a .tap archive *)

\* the 9-byte header of a record of the given filetype, start address and
\* payload length: end address and start address, high byte first
HeaderOf(filetype, start, len) ==
    LET end == (start + len - 1) % 65536
    IN  <<0, 0, filetype, 0, end \div 256, end % 256,
          start \div 256, start % 256, 0>>

ArchiveStart == 1281

\* payloads of up to n bytes, each 0x16 or 0x24
RECURSIVE PayloadsUpTo(_)
PayloadsUpTo(n) ==
    IF n = 0 THEN {<<>>}
    ELSE LET shorter == PayloadsUpTo(n - 1)
         IN  shorter \cup { Append(q, v) : q \in shorter, v \in {22, 36} }

Payloads == PayloadsUpTo(MaxPayload) \ {<<>>}

Record(filetype, name, payload) ==
    [filetype |-> filetype, name |-> name, payload |-> payload,
     start_addr |-> ArchiveStart,
     end_addr |-> ArchiveStart + Len(payload) - 1]

\* first records: BASIC or DATA, no name or a one-letter name;
\* second records: DATA with a one-letter name
FirstRecords ==
    { Record(t, n, q) : t \in {0, 128}, n \in {<<>>, <<65>>}, q \in Payloads }

SecondRecords == { Record(128, <<66>>, q) : q \in Payloads }

\* an archive holds one or two records; with layout "once" a single sync
\* precedes the records, with layout "each" every record has its own
Archives ==
    { [recs |-> <<r>>, layout |-> "once"] : r \in FirstRecords }
    \cup { [recs |-> <<r1, r2>>, layout |-> l] :
             r1 \in FirstRecords, r2 \in SecondRecords, l \in {"once", "each"} }

\* the preamble written by extract_file
Preamble == <<22, 22, 22, 36>>

\* header | name, zero-terminated | payload
RecordBytes(r) ==
    HeaderOf(r.filetype, r.start_addr, Len(r.payload))
        \o r.name \o <<0>> \o r.payload

ArchiveBytes(a) ==
    IF Len(a.recs) = 1
    THEN Preamble \o RecordBytes(a.recs[1])
    ELSE IF a.layout = "once"
    THEN Preamble \o RecordBytes(a.recs[1]) \o RecordBytes(a.recs[2])
    ELSE Preamble \o RecordBytes(a.recs[1])
             \o Preamble \o RecordBytes(a.recs[2])

InitArchive ==
    /\ ParserInit
    /\ hist = <<>>
    /\ flushed = FALSE
    /\ archive \in Archives
    /\ tape = ArchiveBytes(archive)
    /\ OthersInit

\* TrivialDecoder::DecodeByte hands the next byte of the file, free of
\* errors, to TapeParser::PutByte
ReadTapeByte ==
    /\ ~flushed
    /\ tape # <<>>
    /\ SetParser(PutByteOp(Parser, Byte(Head(tape), FALSE, FALSE, FALSE)))
    /\ tape' = Tail(tape)
    /\ UNCHANGED <<hist, flushed, archive, others>>

\* at the end of the file TapeDecoder::ReadFile calls TapeParser::Flush
EndOfTape ==
    /\ ~flushed
    /\ tape = <<>>
    /\ SetParser(Flush(Parser))
    /\ flushed' = TRUE
    /\ UNCHANGED <<hist, avars, others>>

NextArchive == ReadTapeByte \/ EndOfTape

SpecArchive == InitArchive /\ [][NextArchive]_vars

-----------------------------------------------------------------------------
(* C9: archive round trip *)

\* the name of an emitted file: the bytes before the first zero
NameOf(f) == SubSeq(f.name, 1, FirstZero(f.name) - 1)

\* the emitted file f is the archive record r
SameFile(f, r) ==
    /\ FirstZero(f.name) > 0
    /\ NameOf(f) = r.name
    /\ f.start_addr = r.start_addr
    /\ f.end_addr = r.end_addr
    /\ f.payload = r.payload
    /\ f.sync_errors = 0 /\ f.parity_errors = 0

\* the parser emitted exactly the records of the archive, in order
EmittedArchive ==
    /\ Len(out) = Len(archive.recs)
    /\ \A i \in 1..Len(out) : SameFile(out[i].file, archive.recs[i])

\* payload q contains 0x16 0x16 0x16 0x24
HasSync(q) ==
    \E i \in 1..(Len(q) - 3) :
        q[i] = 22 /\ q[i + 1] = 22 /\ q[i + 2] = 22 /\ q[i + 3] = 36

-----------------------------------------------------------------------------
(* Byte framing: the 13-bit representation, LSB first *)

\* static inline int parity8(uint8_t x)
parity8(x) ==
    LET x1 == BitXor(x, x \div 16, 8)
        x2 == BitXor(x1, x1 \div 4, 8)
        x3 == BitXor(x2, x2 \div 2, 8)
    IN  BitAnd(x3, 1, 8)

\* variant of the sync test that checks all three stop bits
is_sync_ok_ThreeStop(z) == BitAnd(z, 7169, 16) = 7168

\* static inline bool is_sync_ok(uint16_t z): (z & 0x0c01) == 0x0c00
is_sync_ok(z) == BitAnd(z, 3073, 16) = 3072

\* static inline uint8_t get_data_bits(uint16_t z)
get_data_bits(z) == BitAnd(z \div 2, 255, 16)

\* static inline bool is_parity_ok(uint16_t z)
is_parity_ok(z) ==
    LET byte == BitAnd(z \div 2, 255, 16)
        parity == BitAnd(z \div 512, 1, 16)
        expected_parity == IF parity8(byte) = 0 THEN 1 ELSE 0
    IN  parity = expected_parity

\* the DecodedByte a back-end fills in from the framed value z
Framed(z, slow) ==
    [time |-> 0, slow |-> slow, byte |-> get_data_bits(z),
     parity_error |-> ~is_parity_ok(z), sync_error |-> ~is_sync_ok(z)]

Framed13 == 0..8191

-----------------------------------------------------------------------------
(* Specification SpecFrame: one byte out of each back-end *)

InitFrame ==
    /\ ParserInit
    /\ hist = <<>>
    /\ flushed = FALSE
    /\ archive = NoArchive
    /\ tape = <<>>
    /\ dbyte = NoByte
    /\ NoDecoder
    /\ NoWindows
    /\ encoder = NoBackend /\ NoSound

NotFramed ==
    UNCHANGED <<pvars, hist, flushed, avars, dvars, wvars, encoder, svars>>

\* DemodDecoder::DecodeWindow: the 13 binarized levels of a byte
DemodFrame ==
    /\ dbyte = NoByte
    /\ \E z \in Framed13 :
         dbyte' = [backend |-> "demod", z |-> z, b |-> Framed(z, TRUE)]
    /\ NotFramed

\* XenonDecoder::DecodeByte
XenonFrame ==
    /\ dbyte = NoByte
    /\ \E z \in Framed13 :
         dbyte' = [backend |-> "xenon", z |-> z, b |-> Framed(z, FALSE)]
    /\ NotFramed

\* DualDecoder::DecodeByte, from its fast or its slow byte decoder
DualFrame ==
    /\ dbyte = NoByte
    /\ \E z \in Framed13, slow \in BOOLEAN :
         dbyte' = [backend |-> "dual", z |-> z, b |-> Framed(z, slow)]
    /\ NotFramed

\* TrivialDecoder::DecodeByte: a byte of the file, no errors
TrivialFrame ==
    /\ dbyte = NoByte
    /\ \E c \in 0..255, slow \in BOOLEAN :
         dbyte' = [backend |-> "trivial", z |-> c,
                   b |-> [time |-> 0, slow |-> slow, byte |-> c,
                          parity_error |-> FALSE, sync_error |-> FALSE]]
    /\ NotFramed

NextFrame == DemodFrame \/ XenonFrame \/ DualFrame \/ TrivialFrame

SpecFrame == InitFrame /\ [][NextFrame]_vars

-----------------------------------------------------------------------------
(* C3: error flags of a decoded byte *)

\* bit k of z
BitOf(z, k) == (z \div (2 ^ k)) % 2

\* number of ones among bits 1..9 of z (data and parity)
OnesInData(z) ==
    BitOf(z, 1) + BitOf(z, 2) + BitOf(z, 3) + BitOf(z, 4) + BitOf(z, 5)
    + BitOf(z, 6) + BitOf(z, 7) + BitOf(z, 8) + BitOf(z, 9)

\* C3 as stated: no decoded byte has both sync_error and parity_error
C3_AsStated ==
    dbyte # NoByte => ~(dbyte.b.sync_error /\ dbyte.b.parity_error)

\* C3 amended: the two flags of a decoded byte are set independently and
\* may both be true: for Demod, Xenon and Dual sync_error is set iff the
\* start bit is 1 or one of the stop bits 10, 11 is 0, and parity_error
\* iff bits 1..9 hold an even number of ones; Trivial sets neither
C3_ErrorFlags ==
    dbyte # NoByte =>
        IF dbyte.backend = "trivial"
        THEN ~dbyte.b.sync_error /\ ~dbyte.b.parity_error
        ELSE /\ dbyte.b.sync_error <=>
                  (BitOf(dbyte.z, 0) = 1 \/ BitOf(dbyte.z, 10) = 0
                                         \/ BitOf(dbyte.z, 11) = 0)
             /\ dbyte.b.parity_error <=> (OnesInData(dbyte.z) % 2 = 0)

\* thirteen low levels (z = 0, as on a silent stretch) decode to a byte
\* with both flags set
C3_Witness ==
    /\ dbyte # NoByte
    /\ dbyte.backend = "demod" /\ dbyte.z = 0
    /\ dbyte.b.sync_error /\ dbyte.b.parity_error


-----------------------------------------------------------------------------
(* Specification SpecMerge: TapeDecoder weaving up to two back-ends *)

\* TapeDecoder::Open: which back-end becomes m_backend0
Backend0Kind(o) ==
    IF ~o.sound THEN "trivial"
    ELSE IF o.dual THEN "dual"
    ELSE IF ~o.slow THEN "xenon"
    ELSE "none"

\* TapeDecoder::Open: which back-end becomes m_backend1
Backend1Kind(o) ==
    IF o.sound /\ ~o.dual /\ ~o.fast THEN "demod" ELSE "none"

\* TapeDecoder::Open: the format selected from the start
SelectFast(o) == o.fast /\ ~o.slow

SelectSlow(o) == o.slow /\ ~o.fast

\* the formats of the bytes a back-end emits
SlowOf(kind, o) ==
    CASE kind = "demod" -> {TRUE}
      [] kind = "xenon" -> {FALSE}
      [] kind = "trivial" -> {o.slow}
      [] kind = "dual" -> { sl \in BOOLEAN : IF sl THEN o.slow \/ ~o.fast
                                                   ELSE o.fast \/ ~o.slow }
      [] OTHER -> {}

\* the error flags of the bytes a back-end emits: <<sync, parity>>
ErrorsOf(kind) ==
    IF kind = "trivial" THEN {<<FALSE, FALSE>>}
    ELSE {<<FALSE, FALSE>>, <<TRUE, FALSE>>}

\* DecoderBackend::DecodeByte: end of tape, or a byte not earlier than the
\* previous byte of the same back-end
Decoded(kind, o, lo, n) ==
    {[ok |-> FALSE]} \cup
    { [ok |-> TRUE,
       b |-> [time |-> t, slow |-> sl, byte |-> c,
              parity_error |-> e[2], sync_error |-> e[1]]] :
        t \in (IF n < MaxDecoded THEN lo..MaxTime ELSE {}),
        sl \in SlowOf(kind, o), c \in {22, 36}, e \in ErrorsOf(kind) }

\* the decoder as a record
Decoder ==
    [o |-> m_options, select_fast |-> m_select_fast,
     select_slow |-> m_select_slow,
     ok0 |-> m_backend0_byte_ok, b0 |-> m_backend0_byte,
     ok1 |-> m_backend1_byte_ok, b1 |-> m_backend1_byte,
     p |-> Parser, n |-> produced,
     fed |-> IF fed = <<>> THEN <<>> ELSE <<fed[Len(fed)]>>,
     ret |-> FALSE, b |-> NoDecoded, picked |-> <<>>]

\* variant of the selection that takes the later of the two bytes
PickBackend0_Latest(d) ==
    d.ok0 /\ (~d.ok1 \/ d.b0.time >= d.b1.time)

\* ReadByte: the byte of back-end 0 goes first
PickBackend0(d) ==
    d.ok0 /\ (~d.ok1 \/ d.b0.time <= d.b1.time)

\* ReadByte: keep peek buffer filled
Refill(d, pick0, r) ==
    IF pick0
    THEN [d EXCEPT !.ok0 = r.ok, !.b0 = IF r.ok THEN r.b ELSE @,
                   !.n = IF r.ok THEN @ + 1 ELSE @]
    ELSE [d EXCEPT !.ok1 = r.ok, !.b1 = IF r.ok THEN r.b ELSE @,
                   !.n = IF r.ok THEN @ + 1 ELSE @]

\* variant of the loop body that returns every selected byte
Weave_ReturnAll(d, b) ==
    LET idle == IsIdle(d.p)
        detect == b.byte = 22 /\ ~b.sync_error /\ ~b.parity_error /\ idle
        sf == IF detect THEN ~b.slow ELSE d.select_fast
        ss == IF detect THEN b.slow ELSE d.select_slow
        selected == IF b.slow THEN ss ELSE sf
    IN  [d EXCEPT !.select_fast = sf, !.select_slow = ss,
                  !.p = IF selected THEN PutByteOp(@, b) ELSE @,
                  !.fed = IF selected
                          THEN Append(@, [time |-> b.time, slow |-> b.slow])
                          ELSE @,
                  !.ret = selected,
                  !.b = b,
                  !.picked = Append(@, [slow |-> b.slow,
                                        clean |-> ~b.sync_error
                                                  /\ ~b.parity_error,
                                        idle |-> idle,
                                        select_fast |-> sf,
                                        select_slow |-> ss,
                                        put |-> selected,
                                        ret |-> selected])]

\* variant of the loop body that returns only bytes without errors
Weave_CleanOnly(d, b) ==
    LET idle == IsIdle(d.p)
        detect == b.byte = 22 /\ ~b.sync_error /\ ~b.parity_error /\ idle
        sf == IF detect THEN ~b.slow ELSE d.select_fast
        ss == IF detect THEN b.slow ELSE d.select_slow
        selected == IF b.slow THEN ss ELSE sf
        ret == selected /\ ~b.sync_error /\ ~b.parity_error
    IN  [d EXCEPT !.select_fast = sf, !.select_slow = ss,
                  !.p = IF selected THEN PutByteOp(@, b) ELSE @,
                  !.fed = IF selected
                          THEN Append(@, [time |-> b.time, slow |-> b.slow])
                          ELSE @,
                  !.ret = ret,
                  !.b = b,
                  !.picked = Append(@, [slow |-> b.slow,
                                        clean |-> ~b.sync_error
                                                  /\ ~b.parity_error,
                                        idle |-> idle,
                                        select_fast |-> sf,
                                        select_slow |-> ss,
                                        put |-> selected,
                                        ret |-> ret])]

\* variant of the loop body that detects a sync byte in any parser state
Weave_DetectAnywhere(d, b) ==
    LET idle == IsIdle(d.p)
        detect == b.byte = 22 /\ ~b.sync_error /\ ~b.parity_error
        sf == IF detect THEN ~b.slow ELSE d.select_fast
        ss == IF detect THEN b.slow ELSE d.select_slow
        selected == IF b.slow THEN ss ELSE sf
        ret == selected /\ ((~b.sync_error /\ ~b.parity_error) \/ ~idle)
    IN  [d EXCEPT !.select_fast = sf, !.select_slow = ss,
                  !.p = IF selected THEN PutByteOp(@, b) ELSE @,
                  !.fed = IF selected
                          THEN Append(@, [time |-> b.time, slow |-> b.slow])
                          ELSE @,
                  !.ret = ret,
                  !.b = b,
                  !.picked = Append(@, [slow |-> b.slow,
                                        clean |-> ~b.sync_error
                                                  /\ ~b.parity_error,
                                        idle |-> idle,
                                        select_fast |-> sf,
                                        select_slow |-> ss,
                                        put |-> selected,
                                        ret |-> ret])]

\* ReadByte: detect sync, perform mode switch, put the byte if selected
Weave(d, b) ==
    LET idle == IsIdle(d.p)
        detect == b.byte = 22 /\ ~b.sync_error /\ ~b.parity_error /\ idle
        sf == IF detect THEN ~b.slow ELSE d.select_fast
        ss == IF detect THEN b.slow ELSE d.select_slow
        selected == IF b.slow THEN ss ELSE sf
        ret == selected /\ ((~b.sync_error /\ ~b.parity_error) \/ ~idle)
    IN  [d EXCEPT !.select_fast = sf, !.select_slow = ss,
                  !.p = IF selected THEN PutByteOp(@, b) ELSE @,
                  !.fed = IF selected
                          THEN Append(@, [time |-> b.time, slow |-> b.slow])
                          ELSE @,
                  !.ret = ret,
                  !.b = b,
                  !.picked = Append(@, [slow |-> b.slow,
                                        clean |-> ~b.sync_error
                                                  /\ ~b.parity_error,
                                        idle |-> idle,
                                        select_fast |-> sf,
                                        select_slow |-> ss,
                                        put |-> selected,
                                        ret |-> ret])]

\* TapeDecoder::ReadByte: every way the call can end, over the bytes
\* the back-ends may decode during it
RECURSIVE ReadOutcomes(_)
ReadOutcomes(d) ==
    IF ~(d.ok0 \/ d.ok1) THEN {[d EXCEPT !.ret = FALSE]}
    ELSE LET pick0 == PickBackend0(d)
             b == IF pick0 THEN d.b0 ELSE d.b1
             kind == IF pick0 THEN Backend0Kind(d.o) ELSE Backend1Kind(d.o)
         IN  UNION { LET w == Weave(Refill(d, pick0, r), b)
                     IN  IF w.ret THEN {w} ELSE ReadOutcomes(w) :
                     r \in Decoded(kind, d.o, b.time, d.n) }

DecoderOptions == [fast : BOOLEAN, slow : BOOLEAN, dual : BOOLEAN,
                   sound : BOOLEAN]

\* TapeDecoder::TapeDecoder and Open
InitMerge ==
    /\ ParserInit
    /\ hist = <<>>
    /\ flushed = FALSE
    /\ archive = NoArchive
    /\ tape = <<>>
    /\ dbyte = NoByte
    /\ NoWindows
    /\ encoder = NoBackend /\ NoSound
    /\ m_options \in DecoderOptions
    /\ m_select_fast = SelectFast(m_options)
    /\ m_select_slow = SelectSlow(m_options)
    /\ \E r0 \in Decoded(Backend0Kind(m_options), m_options, 0, 0) :
         /\ m_backend0_byte_ok = r0.ok
         /\ m_backend0_byte = IF r0.ok THEN r0.b ELSE NoDecoded
         /\ \E r1 \in Decoded(Backend1Kind(m_options), m_options, 0,
                              Bool2Int(r0.ok)) :
              /\ m_backend1_byte_ok = r1.ok
              /\ m_backend1_byte = IF r1.ok THEN r1.b ELSE NoDecoded
              /\ produced = Bool2Int(r0.ok) + Bool2Int(r1.ok)
    /\ fed = <<>>
    /\ returned = <<>>
    /\ picked = <<>>

\* TapeDecoder::ReadByte
ReadByte ==
    /\ \E w \in ReadOutcomes(Decoder) :
         /\ SetParser(w.p)
         /\ m_select_fast' = w.select_fast
         /\ m_select_slow' = w.select_slow
         /\ m_backend0_byte_ok' = w.ok0
         /\ m_backend0_byte' = w.b0
         /\ m_backend1_byte_ok' = w.ok1
         /\ m_backend1_byte' = w.b1
         /\ produced' = w.n
         /\ fed' = w.fed
         /\ picked' = w.picked
         /\ returned' =
              IF ~w.ret THEN returned
              ELSE (IF returned = <<>> THEN <<>>
                    ELSE <<returned[Len(returned)]>>)
                   \o <<[time |-> w.b.time, slow |-> w.b.slow]>>
    /\ UNCHANGED <<m_options, hist, flushed, avars, dbyte, wvars, encoder,
                   svars>>

NextMerge == ReadByte

SpecMerge == InitMerge /\ [][NextMerge]_vars

-----------------------------------------------------------------------------
(* C5: the merged stream is in time order *)

NonDecreasing(q) == \A i \in 1..(Len(q) - 1) : q[i].time <= q[i + 1].time

\* C5: with each back-end's own stream non-decreasing in time, successive
\* bytes put to the parser, and successive bytes returned by ReadByte, are
\* in non-decreasing time order
C5_MergedOrder == NonDecreasing(fed) /\ NonDecreasing(returned)

\* both back-ends at work, the format switching between them: two
\* successive bytes of different back-ends were put and returned, while
\* the back-end of the earlier one holds a byte that is later still
C5_Witness ==
    /\ Backend0Kind(m_options) = "xenon" /\ Backend1Kind(m_options) = "demod"
    /\ Len(fed) = 2 /\ fed[1].slow /\ ~fed[2].slow
    /\ fed[1].time < fed[2].time
    /\ Len(returned) = 2 /\ returned[1].slow /\ ~returned[2].slow
    /\ returned[1].time < returned[2].time
    /\ m_backend1_byte_ok /\ m_backend1_byte.time > fed[2].time


-----------------------------------------------------------------------------
(* Specification SpecWindow: the windowed back-ends.  Times are sample
   offsets (the code scales them by 1/sample rate).  The signal processing
   that finds the byte events of a window is not modelled: each window's
   events are any increasing list of positions in the window. *)

\* m_windowlen, a multiple of four
WindowLen == 4 * WindowQuarter

\* m_hopsize = m_windowlen/2
HopSize == WindowLen \div 2

\* m_start_pos, no start option given
StartPos == 0 * WindowLen

\* m_window_offs after construction (C division truncates)
FirstWindowOffs ==
    StartPos - (StartPos % HopSize) - WindowLen \div 2 + HopSize \div 2

\* t_half_byte: half of 209 bins (slow) or of 32 bins (fast)
THalfByte(slow) == IF slow THEN WindowQuarter ELSE WindowQuarter \div 2

\* right_limit: portion of window which we need to interpret
RightLimit(last_window) ==
    IF last_window THEN WindowLen ELSE (WindowLen + HopSize) \div 2

\* the increasing lists of at most n positions among lo..hi
RECURSIVE Increasing(_, _, _)
Increasing(lo, hi, n) ==
    IF n = 0 \/ lo > hi THEN {<<>>}
    ELSE {<<>>} \cup
         UNION { { <<x>> \o q : q \in Increasing(x + 1, hi, n - 1) } :
                 x \in lo..hi }

\* the byte events a byte decoder may find in the window at offs
WindowEvents(offs) == Increasing(offs, offs + WindowLen - 1, MaxEvents)

\* DualDecoder::ByteDecoder after construction
NewByteDecoder(enabled) ==
    [enabled |-> enabled, last_x |-> -1, times |-> <<>>,
     emit_start |-> 0, emit_end |-> 0]

\* DualDecoder::DualDecoder; byte decoder 1 is fast, 2 is slow
NewDual(enable_fast, enable_slow, end_pos) ==
    [open |-> TRUE, m_window_offs |-> FirstWindowOffs, m_end_pos |-> end_pos,
     m_byte_decoders |-> <<NewByteDecoder(enable_fast),
                           NewByteDecoder(enable_slow)>>]

\* DecodeByteWindow: the loop over the byte events of one byte decoder
RECURSIVE ScanEvents(_, _, _, _, _, _)
ScanEvents(bd, i, offs, right_limit, t_half_byte, end_pos) ==
    IF i >= Len(bd.times) THEN bd
    ELSE LET x == bd.times[i + 1]
             skip == \/ x >= offs + right_limit
                     \/ bd.last_x >= 0 /\ x - bd.last_x < t_half_byte
                     \/ x < StartPos - t_half_byte
                     \/ x > end_pos
             nx == IF skip THEN bd
                   ELSE [bd EXCEPT
                           !.emit_start = IF bd.emit_end = 0 THEN i ELSE @,
                           !.emit_end = i + 1,
                           !.last_x = x]
         IN  ScanEvents(nx, i + 1, offs, right_limit, t_half_byte, end_pos)

\* DualDecoder::DecodeByteWindow for one byte decoder, xs its events
DecodeByteWindow(d, slow, xs, last_window) ==
    LET bd == d.m_byte_decoders[slow + 1]
    IN  IF ~bd.enabled THEN bd
        ELSE ScanEvents([bd EXCEPT !.times = xs, !.emit_start = 0,
                                   !.emit_end = 0],
                        0, d.m_window_offs, RightLimit(last_window),
                        THalfByte(slow = 1), d.m_end_pos)

\* DualDecoder::DecodeWindow, given the events of the two byte decoders
DualDecodeWindow(d, xs0, xs1) ==
    LET last_window == d.m_window_offs + HopSize >= d.m_end_pos
    IN  [d EXCEPT !.m_byte_decoders =
                      <<DecodeByteWindow(d, 0, xs0, last_window),
                        DecodeByteWindow(d, 1, xs1, last_window)>>,
                  !.m_window_offs = @ + HopSize]

RangeEmpty(bd) == bd.emit_start = bd.emit_end

\* DualDecoder::DecodeByte: output chronologically when have two types
PickSlow(d) ==
    LET have_fast == ~RangeEmpty(d.m_byte_decoders[1])
        have_slow == ~RangeEmpty(d.m_byte_decoders[2])
        t0 == d.m_byte_decoders[1].times[d.m_byte_decoders[1].emit_start + 1]
        t1 == d.m_byte_decoders[2].times[d.m_byte_decoders[2].emit_start + 1]
    IN  IF have_fast /\ have_slow THEN (IF t1 < t0 THEN 1 ELSE 0)
        ELSE IF have_slow THEN 1 ELSE 0

\* DualDecoder::DecodeByte: every way the call can end
RECURSIVE DualOutcomes(_)
DualOutcomes(d) ==
    IF RangeEmpty(d.m_byte_decoders[1]) /\ RangeEmpty(d.m_byte_decoders[2])
    THEN IF d.m_window_offs >= d.m_end_pos
         THEN {[d |-> d, ok |-> FALSE]}
         ELSE UNION { DualOutcomes(DualDecodeWindow(d, xs0, xs1)) :
                      xs0 \in (IF d.m_byte_decoders[1].enabled
                               THEN WindowEvents(d.m_window_offs)
                               ELSE {<<>>}),
                      xs1 \in (IF d.m_byte_decoders[2].enabled
                               THEN WindowEvents(d.m_window_offs)
                               ELSE {<<>>}) }
    ELSE LET slow == PickSlow(d)
             bd == d.m_byte_decoders[slow + 1]
         IN  {[d |-> [d EXCEPT !.m_byte_decoders[slow + 1].emit_start = @ + 1],
               ok |-> TRUE,
               b |-> [time |-> bd.times[bd.emit_start + 1],
                      slow |-> slow = 1]]}

\* DemodDecoder::DemodDecoder
NewDemod(end_pos) ==
    [open |-> TRUE, m_window_offs |-> FirstWindowOffs, m_end_pos |-> end_pos,
     m_last_byte_onset |-> -1, m_byte_buf |-> <<>>, m_byte_index |-> 0]

\* DemodDecoder::DecodeWindow: the loop over the onsets but the last
RECURSIVE ScanOnsets(_, _, _, _)
ScanOnsets(m, onsets, i, right_limit) ==
    IF i >= Len(onsets) - 1 THEN m
    ELSE LET onset == onsets[i + 1]
             skip == \/ onset - m.m_window_offs >= right_limit
                     \/ m.m_last_byte_onset >= 0
                        /\ onset - m.m_last_byte_onset < THalfByte(TRUE)
                     \/ onset < StartPos - THalfByte(TRUE)
                     \/ onset > m.m_end_pos
             nx == IF skip THEN m
                   ELSE [m EXCEPT !.m_byte_buf = Append(@, onset),
                                  !.m_last_byte_onset = onset]
         IN  ScanOnsets(nx, onsets, i + 1, right_limit)

\* DemodDecoder::DecodeWindow, given the onsets the detector found
DemodDecodeWindow(m, onsets) ==
    LET last_window == m.m_window_offs + HopSize >= m.m_end_pos
        scanned == ScanOnsets(m, onsets, 0, RightLimit(last_window))
    IN  [scanned EXCEPT !.m_window_offs = @ + HopSize]

\* DemodDecoder::DecodeByte: every way the call can end
RECURSIVE DemodOutcomes(_)
DemodOutcomes(m) ==
    IF m.m_byte_index = Len(m.m_byte_buf)
    THEN LET cleared == [m EXCEPT !.m_byte_index = 0, !.m_byte_buf = <<>>]
         IN  IF m.m_window_offs >= m.m_end_pos
             THEN {[d |-> cleared, ok |-> FALSE]}
             ELSE UNION { DemodOutcomes(DemodDecodeWindow(cleared, onsets)) :
                          onsets \in Increasing(m.m_window_offs,
                                                m.m_window_offs + WindowLen - 1,
                                                MaxEvents + 1) }
    ELSE {[d |-> [m EXCEPT !.m_byte_index = @ + 1], ok |-> TRUE,
           b |-> [time |-> m.m_byte_buf[m.m_byte_index + 1], slow |-> TRUE]]}

\* the last emitted byte and the new one
Emit(w) ==
    IF ~w.ok THEN emitted
    ELSE (IF emitted = <<>> THEN <<>> ELSE <<emitted[Len(emitted)]>>)
         \o <<w.b>>

NotWindowed ==
    UNCHANGED <<pvars, hist, flushed, avars, dbyte, dvars, encoder, svars>>

InitWindow ==
    /\ ParserInit
    /\ hist = <<>>
    /\ flushed = FALSE
    /\ archive = NoArchive
    /\ tape = <<>>
    /\ dbyte = NoByte
    /\ NoDecoder
    /\ encoder = NoBackend /\ NoSound
    /\ emitted = <<>>
    /\ \E end_pos \in 1..MaxEnd :
         \/ /\ demod = NoBackend
            /\ \E enable_fast, enable_slow \in BOOLEAN :
                 /\ enable_fast \/ enable_slow
                 /\ dual = NewDual(enable_fast, enable_slow, end_pos)
         \/ /\ dual = NoBackend
            /\ demod = NewDemod(end_pos)

\* DualDecoder::DecodeByte
DualDecodeByte ==
    /\ dual.open
    /\ \E w \in DualOutcomes(dual) :
         /\ dual' = w.d
         /\ emitted' = Emit(w)
    /\ UNCHANGED demod
    /\ NotWindowed

\* DemodDecoder::DecodeByte
DemodDecodeByte ==
    /\ demod.open
    /\ \E w \in DemodOutcomes(demod) :
         /\ demod' = w.d
         /\ emitted' = Emit(w)
    /\ UNCHANGED dual
    /\ NotWindowed

NextWindow == DualDecodeByte \/ DemodDecodeByte

SpecWindow == InitWindow /\ [][NextWindow]_vars

-----------------------------------------------------------------------------
(* C4: byte times of one back-end *)

\* C4: any two successive bytes emitted by one back-end are in
\* non-decreasing time order, across windows and across the interleaving
\* of the fast and slow streams of the Dual back-end
C4_Monotonic ==
    Len(emitted) = 2 => emitted[1].time <= emitted[2].time

\* the same, of the bytes of one format only
C4_PerStream ==
    (Len(emitted) = 2 /\ emitted[1].slow = emitted[2].slow)
        => emitted[1].time <= emitted[2].time

\* the same, of the Demod back-end only
C4_Demod ==
    (demod.open /\ Len(emitted) = 2) => emitted[1].time <= emitted[2].time

-----------------------------------------------------------------------------
(* C11: a file interrupted by the next one *)

\* this step puts the zero byte that ends a name, in the same format
\* (Flush and a format change clear the name instead)
NameCompletes ==
    /\ m_section_type = ST_NAME
    /\ ~flushed'
    /\ m_slow' = m_slow
    /\ m_section_type' = ST_SYNC
    /\ m_scout_file'.name[m_section_offs + 1] = 0

\* n bytes 0xcd
Pad(n) == [i \in 1..n |-> PadByte]

\* C11: when the name of a next file completes while a payload is in
\* progress, the file in progress is emitted in that step with the zero
\* byte routed to it and the rest up to its len padded with 0xcd, its
\* sync_errors and parity_errors raised by one per pad byte, and the next
\* file is then active with payload offset 0 and no payload byte yet
C11_Interrupted ==
    [][ (NameCompletes /\ m_payload_active) =>
          LET missing == m_payload_file.len - m_payload_offs - 1
              f == out'[Len(out')].file
              se == m_scout_file'.sync_errors - m_scout_file.sync_errors
              pe == m_scout_file'.parity_errors - m_scout_file.parity_errors
          IN  /\ Len(out') = Len(out) + 1
              /\ missing >= 0
              /\ f.header = m_payload_file.header
              /\ f.name = m_payload_file.name
              /\ f.len = m_payload_file.len
              /\ f.payload = m_payload_file.payload \o <<0>> \o Pad(missing)
              /\ f.sync_errors = m_payload_file.sync_errors + se + missing
              /\ f.parity_errors = m_payload_file.parity_errors + pe + missing
              /\ m_payload_active' /\ m_payload_offs' = 0
              /\ m_payload_file' = m_scout_file'
              /\ m_payload_file'.payload = <<>> ]_vars

\* C11, the next byte: with a file just started, the byte put next is
\* its payload byte 0
C11_NextByte ==
    [][ (m_payload_active /\ m_payload_offs = 0 /\ ~flushed'
         /\ m_slow' = m_slow) =>
          \/ /\ m_payload_active' /\ m_payload_offs' = 1
             /\ Len(m_payload_file'.payload) = 1
             /\ Len(out') = Len(out)
          \/ /\ m_payload_file.len = 1
             /\ Len(out') = Len(out) + 1
             /\ Len(out'[Len(out')].file.payload) = 1 ]_vars

\* a file of declared length 16 was interrupted after 14 bytes, emitted
\* with two pad bytes and two errors of each kind, and the next file waits
\* for its first payload byte
C11_Witness ==
    /\ Len(out) = 1
    /\ out[1].file.len = 16 /\ out[1].offs = 16
    /\ SubSeq(out[1].file.payload, 1, 4) = <<22, 22, 22, 36>>
    /\ out[1].file.payload[14] = 0
    /\ SubSeq(out[1].file.payload, 15, 16) = <<PadByte, PadByte>>
    /\ out[1].file.sync_errors = 2 /\ out[1].file.parity_errors = 2
    /\ m_payload_active /\ m_payload_offs = 0
    /\ m_payload_file.payload = <<>>

-----------------------------------------------------------------------------
(* Specification SpecReject: candidates inside a long payload *)

\* Bytes offered while candidates are rejected: a plain sync, headers of
\* supported and unsupported type giving length 32, names of 0, 16 and 17
\* characters; the payload of a started file carries the sync, header and
\* name of the next candidates
RejectMenu(p) ==
    IF p.section_type = ST_SYNC
    THEN { Byte(IF p.section_offs < 3 THEN 22 ELSE 36, p.slow, FALSE, e) :
             e \in BOOLEAN }
    ELSE IF p.section_type = ST_HEADER
    THEN { Byte(v, p.slow, FALSE, FALSE) :
             v \in (IF p.section_offs = 2 THEN {0, 64}
                    ELSE IF p.section_offs = 5 THEN {31}
                    ELSE {0}) }
    ELSE { Byte(v, p.slow, FALSE, FALSE) :
             v \in (IF p.section_offs \in {0, 16} THEN {0, 65} ELSE {65}) }

\* TapeParser::PutByte on a byte of the reject menu
PutRejectByte ==
    /\ ~flushed
    /\ Len(out) < MaxFiles
    /\ \E b \in RejectMenu(Parser) :
         /\ Bounded(PutByteOp(Parser, b))
         /\ SetParser(PutByteOp(Parser, b))
    /\ UNCHANGED <<hist, flushed, avars, others>>

NextReject == PutRejectByte \/ FlushCall

SpecReject == Init /\ [][NextReject]_vars

-----------------------------------------------------------------------------
(* C12: rejected candidates *)

\* this step completes a header of unsupported filetype
HeaderRejected ==
    /\ m_section_type = ST_HEADER /\ m_section_offs = HeaderCapacity - 1
    /\ ~flushed' /\ m_slow' = m_slow
    /\ m_scout_file'.header[3] \notin {0, 128}

\* this step puts a 17th name byte that is not zero
NameRejected ==
    /\ m_section_type = ST_NAME /\ m_section_offs = NameCapacity - 1
    /\ ~flushed' /\ m_slow' = m_slow
    /\ m_scout_file'.name[NameCapacity] # 0

\* the step treats the payload in progress as any byte does: one more
\* byte routed, and the file emitted if that byte was its last
PayloadUndisturbed ==
    IF ~m_payload_active
    THEN ~m_payload_active' /\ out' = out
    ELSE /\ m_payload_file'.header = m_payload_file.header
         /\ m_payload_file'.name = m_payload_file.name
         /\ m_payload_file'.len = m_payload_file.len
         /\ SubSeq(m_payload_file'.payload, 1, m_payload_offs) =
                m_payload_file.payload
         /\ m_payload_offs' = m_payload_offs + 1
         /\ Len(m_payload_file'.payload) = m_payload_offs'
         /\ IF m_payload_offs' = m_payload_file.len
            THEN /\ ~m_payload_active'
                 /\ out' = Append(out, [file |-> m_payload_file',
                                        offs |-> m_payload_offs'])
            ELSE m_payload_active' /\ out' = out

C12_WitnessHeader ==
    /\ m_section_type = ST_SYNC /\ m_section_offs = 0
    /\ m_scout_file.header[3] = 64
    /\ m_payload_active /\ m_payload_offs = 13
    /\ out = <<>>

-----------------------------------------------------------------------------
(* Specification SpecFormat: bytes of either format at any point *)

\* Bytes offered while the format changes: a plain sync, a BASIC header
\* giving length 2, an empty name, payload bytes 0x41 and 0x16; every byte
\* in either format, with or without a parity error
FormatMenu(p) ==
    { Byte(v, sl, FALSE, e) :
        v \in (IF p.section_type = ST_SYNC
               THEN (IF p.payload_active THEN {22, 65}
                     ELSE IF p.section_offs < 3 THEN {22} ELSE {36})
               ELSE IF p.section_type = ST_HEADER
               THEN (IF p.section_offs = 5 THEN {1} ELSE {0})
               ELSE {0}),
        sl \in BOOLEAN, e \in BOOLEAN }

\* TapeParser::PutByte on a byte of the format menu
PutFormatByte ==
    /\ ~flushed
    /\ Len(out) < MaxFiles
    /\ \E b \in FormatMenu(Parser) :
         /\ Bounded(PutByteOp(Parser, b))
         /\ SetParser(PutByteOp(Parser, b))
    /\ UNCHANGED <<hist, flushed, avars, others>>

NextFormat == PutFormatByte \/ FlushCall

SpecFormat == Init /\ [][NextFormat]_vars

-----------------------------------------------------------------------------
(* C13: change of format *)

\* this step puts a byte whose format differs from the parser's
FormatChanges == m_slow' # m_slow /\ ~flushed'

\* the parser as a byte leaves it that meets the parser in its initial
\* state: in SYNC, one 0x16 counted or none, each run counter zero or one
\* past its initial value, no payload, both files cleared
AfterFirstByte ==
    /\ m_section_type' = ST_SYNC
    /\ m_consecutive_non_16' \in {0, InitialConsecutive + 1}
    /\ m_section_offs' = IF m_consecutive_non_16' = 0 THEN 1 ELSE 0
    /\ m_consecutive_bad_bytes' \in {0, InitialConsecutive + 1}
    /\ ~m_payload_active' /\ m_payload_offs' = 0
    /\ m_scout_file' = ZeroFile /\ m_payload_file' = ZeroFile

\* the step goes on from the state it met: the run counters continue, the
\* sync count grows, restarts or completes, nothing is emitted or cleared
Continues ==
    /\ out' = out
    /\ m_consecutive_non_16' \in {0, m_consecutive_non_16 + 1}
    /\ m_consecutive_bad_bytes' \in {0, m_consecutive_bad_bytes + 1}
    /\ \/ m_section_type' = ST_SYNC
          /\ m_section_offs' \in {0, m_section_offs + 1}
       \/ m_section_type' = ST_HEADER /\ m_section_offs' = 0
          /\ m_section_offs >= 3
    /\ m_scout_file'.header = m_scout_file.header
    /\ m_scout_file'.name = m_scout_file.name
    /\ m_payload_file' = m_payload_file
    /\ ~m_payload_active'

\* C13: a byte of the other format that meets the parser in HEADER, in
\* NAME or with a payload active has the payload, if any, padded to its
\* len and emitted, and is then processed by a parser in its initial
\* state; one that meets the parser idle emits and clears nothing
C13_FormatChange ==
    [][ FormatChanges =>
          IF IsIdle(Parser)
          THEN Continues
          ELSE /\ AfterFirstByte
               /\ IF m_payload_active
                  THEN out' = Append(out,
                          [file |-> [m_payload_file EXCEPT
                                       !.payload = @ \o Pad(m_payload_file.len
                                                            - m_payload_offs),
                                       !.sync_errors = @ + m_payload_file.len
                                                         - m_payload_offs,
                                       !.parity_errors = @ + m_payload_file.len
                                                           - m_payload_offs],
                           offs |-> m_payload_file.len])
                  ELSE out' = out ]_vars

\* a byte of the other format met a payload at offset 1 of 2: the file
\* was emitted with one pad byte and the parser started over
C13_Witness ==
    /\ Len(out) = 1
    /\ out[1].file.payload = <<65, PadByte>>
    /\ out[1].file.slow # m_slow
    /\ m_section_type = ST_SYNC /\ ~m_payload_active
    /\ m_payload_file = ZeroFile
    /\ m_consecutive_non_16 = 0 /\ m_section_offs = 1

\* a byte of the other format met the idle parser after two 0x16: the
\* count went on to three
C13_WitnessIdle ==
    /\ m_slow /\ m_section_type = ST_SYNC /\ m_section_offs = 3
    /\ out = <<>> /\ m_scout_file = ZeroFile
    /\ m_consecutive_non_16 = 0

-----------------------------------------------------------------------------
(* C14: what ReadByte does with a picked byte *)

\* the format of the picked byte is the selected one (a sync byte that
\* switches the mode has selected its own format)
Matches(e) == IF e.slow THEN e.select_slow ELSE e.select_fast

\* C14 as stated: every picked byte of the selected format is put to the
\* parser and returned by that call; any other is neither put nor returned
C14_AsStated ==
    \A i \in 1..Len(picked) :
        /\ Matches(picked[i]) => picked[i].put /\ picked[i].ret
        /\ ~Matches(picked[i]) => ~picked[i].put /\ ~picked[i].ret

\* C14 amended: a picked byte is put to the parser iff its format is the
\* selected one; it is returned by that call iff it was put and it has no
\* error or the parser was not idle when it was picked (a byte with an
\* error put to the idle parser is not returned: the call goes on to the
\* next byte); a returned byte is the last one the call picked
C14_Selected ==
    \A i \in 1..Len(picked) :
        /\ picked[i].put <=> Matches(picked[i])
        /\ picked[i].ret <=>
              (Matches(picked[i])
               /\ (picked[i].clean \/ ~picked[i].idle))
        /\ picked[i].ret =>
              /\ i = Len(picked)
              /\ returned # <<>>
              /\ returned[Len(returned)].slow = picked[i].slow

\* one call picked a byte of the selected format with a sync error while
\* the parser was idle, put it without returning it, skipped a byte of the
\* other format, and returned a third
C14_Witness ==
    /\ Len(picked) = 3
    /\ Matches(picked[1]) /\ ~picked[1].clean /\ picked[1].idle
    /\ picked[1].put /\ ~picked[1].ret
    /\ ~Matches(picked[2]) /\ ~picked[2].put
    /\ picked[3].put /\ picked[3].ret

-----------------------------------------------------------------------------
(* Specification SpecEncode: TapeEncoder, byte by byte *)

\* (byte>>i)&1
DataBit(byte, i) == (byte \div (2 ^ i)) % 2 = 1

\* the parity variable of EncodeByte after i data bits, starting at init
RECURSIVE ParityAfter(_, _, _)
ParityAfter(init, byte, i) ==
    IF i = 0 THEN init
    ELSE ParityAfter(init, byte, i - 1) # DataBit(byte, i - 1)

\* variant of EncodeByte with even parity
EncodeByte_EvenParity(byte) ==
    <<FALSE>> \o [i \in 1..8 |-> DataBit(byte, i - 1)]
      \o <<ParityAfter(FALSE, byte, 8)>> \o <<TRUE, TRUE, TRUE>>

\* TapeEncoder::EncodeByte: the values passed to EncodeBit, in order
EncodeByte(byte) ==
    <<FALSE>> \o [i \in 1..8 |-> DataBit(byte, i - 1)]
      \o <<ParityAfter(TRUE, byte, 8)>> \o <<TRUE, TRUE, TRUE>>

\* TapeEncoder::EncodeBit: the levels passed to EmitBit, after polarity
EncodeBit(m_slow_, val, polarity) ==
    IF m_slow_
    THEN [k \in 1..16 |->
            (IF val THEN (k - 1) % 2 = 0 ELSE ((k - 1) \div 2) % 2 = 0)
            # polarity]
    ELSE <<~polarity, polarity>> \o (IF val THEN <<>> ELSE <<polarity>>)

\* TapeEncoder::Open
InitEncode ==
    /\ ParserInit
    /\ hist = <<>>
    /\ flushed = FALSE
    /\ archive = NoArchive
    /\ tape = <<>>
    /\ dbyte = NoByte
    /\ NoDecoder
    /\ NoWindows
    /\ NoSound
    /\ \E slow \in BOOLEAN :
         encoder = [open |-> TRUE, m_slow |-> slow, m_last_bit |-> FALSE,
                    byte |-> 0, bits |-> <<>>]

RECURSIVE EmitAll(_, _, _, _)
\* the level left by EmitBit after the bits from position i on are encoded
EmitAll(m_slow_, bits, i, last_bit) ==
    IF i > Len(bits) THEN last_bit
    ELSE LET levels == EncodeBit(m_slow_, bits[i], last_bit)
         IN  EmitAll(m_slow_, bits, i + 1, levels[Len(levels)])

\* TapeEncoder::EncodeByte on one byte, with its extra cycle
EncodeOne ==
    /\ encoder.open
    /\ \E byte \in 0..255 :
         encoder' = [encoder EXCEPT
                       !.byte = byte,
                       !.bits = EncodeByte(byte),
                       !.m_last_bit =
                           ~EmitAll(encoder.m_slow, EncodeByte(byte), 1, @)]
    /\ UNCHANGED <<pvars, hist, flushed, avars, dbyte, dvars, wvars, svars>>

NextEncode == EncodeOne

SpecEncode == InitEncode /\ [][NextEncode]_vars

-----------------------------------------------------------------------------
(* C15: the encoder's frame, read by the decoders' helpers *)

\* the bits read LSB first as a number
RECURSIVE FrameValue(_)
FrameValue(bits) ==
    IF bits = <<>> THEN 0
    ELSE Bool2Int(bits[1]) + 2 * FrameValue(SubSeq(bits, 2, Len(bits)))

\* C15: in either format the bits encoded for a byte are 13: a start bit
\* 0, the eight data bits LSB first, a parity bit that makes the number of
\* ones among data and parity odd, three stop bits 1; read LSB first as z,
\* is_sync_ok(z), is_parity_ok(z) and get_data_bits(z) = the byte
C15_Frame ==
    (encoder.open /\ encoder.bits # <<>>) =>
        LET bits == encoder.bits
            z == FrameValue(bits)
        IN  /\ Len(bits) = 13
            /\ ~bits[1]
            /\ \A i \in 0..7 : bits[i + 2] = DataBit(encoder.byte, i)
            /\ Cardinality({ i \in 2..10 : bits[i] }) % 2 = 1
            /\ bits[11] /\ bits[12] /\ bits[13]
            /\ z \in Framed13
            /\ is_sync_ok(z) /\ is_parity_ok(z)
            /\ get_data_bits(z) = encoder.byte

\* the byte 0xaa was encoded in slow format: z = 0x1f54
C15_Witness ==
    /\ encoder.open /\ encoder.m_slow
    /\ encoder.byte = 170
    /\ FrameValue(encoder.bits) = 8020

-----------------------------------------------------------------------------
(* FileBackend: the block cache of a sound file and two threads reading it *)

\* m_block_cnt, the number of blocks of the file
MaxBlocks == 3

Blocks == 0..(MaxBlocks - 1)

\* the threads that read from the source
Readers == {1, 2}

\* no buffer: a null entry of m_blocks, a null pointer
NullBlock == [no |-> 0, state |-> "null"]

\* a thread outside ReadFromCache
IdleReader ==
    [pc |-> "idle", block_no |-> 0, at_block_no |-> 0, block |-> NullBlock,
     copied |-> "none"]

\* FileBackend::FileBackend: every entry of m_blocks is null, the reader is at
\* the start of the file; the file format is seekable or not
InitCache ==
    /\ ParserInit
    /\ hist = <<>>
    /\ flushed = FALSE
    /\ archive = NoArchive
    /\ tape = <<>>
    /\ dbyte = NoByte
    /\ NoDecoder
    /\ NoWindows
    /\ encoder = NoBackend
    /\ player = NoBackend /\ recorder = NoBackend /\ session = NoBackend
    /\ \E seekable \in BOOLEAN :
         source = [open |-> TRUE, seekable |-> seekable, read_pos |-> 0,
                   m_blocks |-> [b \in Blocks |-> "null"], m_mutex |-> 0,
                   threads |-> [t \in Readers |-> IdleReader]]

NotCached ==
    UNCHANGED <<pvars, hist, flushed, avars, dbyte, dvars, wvars, encoder,
                player, recorder, session>>

\* the source after thread t moved on
Moved(t, thread) == [source EXCEPT !.threads[t] = thread]

\* the pointers the threads hold to the buffer of block b, after that buffer
\* went from one state to another
Repoint(threads, b, from, to) ==
    [u \in Readers |->
        IF threads[u].block.no = b /\ threads[u].block.state = from
        THEN [threads[u] EXCEPT !.block.state = to]
        ELSE threads[u]]

\* ReadFromCache, entered for a range inside one block
CallReadFromCache(t) ==
    /\ source.threads[t].pc = "idle"
    /\ \E block_no \in Blocks :
         source' = Moved(t, [IdleReader EXCEPT !.pc = "quick",
                                               !.block_no = block_no])
    /\ NotCached

\* GetBlock: the quick check before locking the mutex
QuickCheck(t) ==
    LET me == source.threads[t]
    IN  /\ me.pc = "quick"
        /\ source' = Moved(t, [me EXCEPT !.pc =
                                 IF source.m_blocks[me.block_no] # "null"
                                 THEN "return" ELSE "lock"])
        /\ NotCached

\* GetBlock: m_mutex.lock()
Lock(t) ==
    LET me == source.threads[t]
    IN  /\ me.pc = "lock"
        /\ source.m_mutex = 0
        /\ source' = [Moved(t, [me EXCEPT !.pc = "again"])
                        EXCEPT !.m_mutex = t]
        /\ NotCached

\* GetBlock: the check under the mutex, then the seek attempt
CheckAgain(t) ==
    LET me == source.threads[t]
        at == IF source.seekable THEN me.block_no ELSE source.read_pos
    IN  /\ me.pc = "again"
        /\ source' =
             IF source.m_blocks[me.block_no] # "null"
             THEN [Moved(t, [me EXCEPT !.pc = "return"])
                     EXCEPT !.m_mutex = 0]
             ELSE [Moved(t, [me EXCEPT !.pc = "loop", !.at_block_no = at])
                     EXCEPT !.read_pos = at]
        /\ NotCached

\* GetBlock: the head of the while loop and the allocation of a block buffer
Allocate(t) ==
    LET me == source.threads[t]
    IN  /\ me.pc = "loop"
        /\ me.at_block_no <= me.block_no
        /\ source.m_blocks[me.at_block_no] = "null"
        /\ source' = [Moved(t, [me EXCEPT !.pc = "read"])
                        EXCEPT !.m_blocks[me.at_block_no] = "filling"]
        /\ NotCached

\* GetBlock: "continue" on a block already fetched, at_block_no as it was
Continue(t) ==
    LET me == source.threads[t]
    IN  /\ me.pc = "loop"
        /\ me.at_block_no <= me.block_no
        /\ source.m_blocks[me.at_block_no] # "null"
        /\ UNCHANGED source
        /\ NotCached

\* GetBlock: m_reader.Read into the new buffer; a read that fails leaves the
\* reader where it was
ReadBlock(t) ==
    LET me == source.threads[t]
        b  == me.at_block_no
    IN  /\ me.pc = "read"
        /\ \E ok \in BOOLEAN :
             source' =
               IF ok
               THEN [source EXCEPT
                       !.m_blocks[b] = "loaded",
                       !.read_pos = @ + 1,
                       !.threads =
                           [Repoint(@, b, "filling", "loaded") EXCEPT
                              ![t] = [me EXCEPT !.pc = "loop",
                                                !.at_block_no = b + 1]]]
               ELSE Moved(t, [me EXCEPT !.pc = "delete"])
        /\ NotCached

\* GetBlock: delete[] m_blocks[at_block_no] after a failed read
DeleteBlock(t) ==
    LET me == source.threads[t]
        b  == me.at_block_no
    IN  /\ me.pc = "delete"
        /\ source' = [source EXCEPT
                        !.m_blocks[b] = "freed",
                        !.threads =
                            [Repoint(@, b, "filling", "freed") EXCEPT
                               ![t] = [me EXCEPT !.pc = "zero"]]]
        /\ NotCached

\* GetBlock: m_blocks[at_block_no] = 0, then the next block
ZeroBlock(t) ==
    LET me == source.threads[t]
        b  == me.at_block_no
    IN  /\ me.pc = "zero"
        /\ source' = [Moved(t, [me EXCEPT !.pc = "loop",
                                          !.at_block_no = b + 1])
                        EXCEPT !.m_blocks[b] = "null"]
        /\ NotCached

\* GetBlock: m_mutex.unlock() after the loop
Unlock(t) ==
    LET me == source.threads[t]
    IN  /\ me.pc = "loop"
        /\ me.at_block_no > me.block_no
        /\ source' = [Moved(t, [me EXCEPT !.pc = "return",
                                          !.at_block_no = 0])
                        EXCEPT !.m_mutex = 0]
        /\ NotCached

\* GetBlock: return m_blocks[block_no], read without the mutex
ReturnBlock(t) ==
    LET me == source.threads[t]
    IN  /\ me.pc = "return"
        /\ source' = Moved(t, [me EXCEPT
                                 !.pc = "got",
                                 !.block =
                                     [no |-> me.block_no,
                                      state |-> source.m_blocks[me.block_no]]])
        /\ NotCached

\* ReadFromCache: false on a null block, else memcpy from the block
CopyBlock(t) ==
    LET me == source.threads[t]
    IN  /\ me.pc = "got"
        /\ source' = Moved(t, [IdleReader EXCEPT
                                 !.copied =
                                     IF me.block.state = "null" THEN "none"
                                     ELSE me.block.state])
        /\ NotCached

NextCache ==
    \E t \in Readers :
        \/ CallReadFromCache(t)
        \/ QuickCheck(t)
        \/ Lock(t)
        \/ CheckAgain(t)
        \/ Allocate(t)
        \/ Continue(t)
        \/ ReadBlock(t)
        \/ DeleteBlock(t)
        \/ ZeroBlock(t)
        \/ Unlock(t)
        \/ ReturnBlock(t)
        \/ CopyBlock(t)

SpecCache == InitCache /\ [][NextCache]_vars

-----------------------------------------------------------------------------
(* C16: concurrent reads of the file-backed source *)

\* the threads inside the part of GetBlock that the mutex guards
Fetching ==
    {t \in Readers :
        source.threads[t].pc \in {"again", "loop", "read", "delete", "zero"}}

\* C16 (first half): block fetches serialize on the mutex: at most one thread
\* is fetching at a time, and it is the holder of the mutex.
C16_Serialized ==
    source.open =>
        /\ Cardinality(Fetching) <= 1
        /\ \A t \in Fetching : source.m_mutex = t

\* C16: every non-null block pointer a thread got from GetBlock, and every
\* block it copies samples from, is completely loaded and not freed.
C16_SafeReads ==
    source.open =>
        \A t \in Readers :
            /\ source.threads[t].pc = "got"
                 => source.threads[t].block.state \in {"null", "loaded"}
            /\ source.threads[t].copied \in {"none", "loaded"}

-----------------------------------------------------------------------------
(* SoundPlayer: the caller of a player, its refill thread and the audio
   callback.  Samples are counted in chunks and time in chunk times. *)

\* chunks the FIFO holds
MaxFifo == 2

\* chunks of the longest sound played or buffer written
MaxSound == 3

\* most chunks written to one player
MaxWritten == 4

\* longest time-out given to Flush
MaxTimeout == 3

\* t_max of Flush: one second, in chunk times
TMax == 8

Lesser(a, b) == IF a < b THEN a ELSE b

\* the caller is outside the player
IdleCall == [op |-> "idle", pc |-> "idle", arg |-> 0, sleep |-> 0,
             then |-> "idle", waited |-> 0]

\* SoundPlayer without a backend; the fields are those of a new backend;
\* wrote tells that Write has put samples since the latest Play
NewPlayer ==
    [open |-> TRUE, backend |-> FALSE, m_stream |-> FALSE,
     m_stream_started |-> FALSE, dt |-> 0, m_write_pos |-> 0,
     m_write_cnt |-> 0, m_read_cnt |-> 0, sound |-> 0,
     m_refill_pending |-> FALSE, m_stopping |-> FALSE, thread |-> "none",
     wrote |-> FALSE, call |-> IdleCall]

InitPlayer ==
    /\ ParserInit
    /\ hist = <<>>
    /\ flushed = FALSE
    /\ archive = NoArchive
    /\ tape = <<>>
    /\ dbyte = NoByte
    /\ NoDecoder
    /\ NoWindows
    /\ encoder = NoBackend
    /\ source = NoBackend /\ recorder = NoBackend /\ session = NoBackend
    /\ player = NewPlayer

NotPlayed ==
    UNCHANGED <<pvars, hist, flushed, avars, dbyte, dvars, wvars, encoder,
                source, recorder, session>>

\* Fifo::GetReadAvail
GetReadAvail(p) == p.m_write_cnt - p.m_read_cnt

\* Fifo::GetWriteAvail
GetWriteAvail(p) == MaxFifo - GetReadAvail(p)

\* SoundPort::StartStream; ok tells whether Pa_StartStream succeeds
StartStream(p, ok) ==
    IF p.m_stream /\ ~p.m_stream_started /\ ok
    THEN [p EXCEPT !.m_stream_started = TRUE, !.dt = 0]
    ELSE p

\* SoundPlayerBackend::FinishStream: StopStream and CloseStream
FinishStream(p) ==
    [p EXCEPT !.m_stream = FALSE, !.m_stream_started = FALSE, !.dt = 0]

\* SoundPlayerBackend::GetElapsedTime, dt being the time since the start
GetElapsedTime(p) ==
    IF p.m_stream_started THEN Lesser(p.dt, p.m_write_pos) ELSE 0

\* SoundPlayerBackend::GetTimeLeft
GetTimeLeft(p) == p.m_write_pos - GetElapsedTime(p)

\* SoundPlayerBackend::Refill
PlayerRefill(p) ==
    LET q == IF p.m_stopping THEN [p EXCEPT !.m_refill_pending = FALSE]
             ELSE p
        n == q.m_write_cnt + Lesser(1, GetWriteAvail(q))
    IN  IF ~q.m_refill_pending THEN q
        ELSE [q EXCEPT !.m_write_cnt = n,
                       !.m_refill_pending = n < q.sound /\ ~q.m_stopping]

RECURSIVE Prefill(_)
\* Play: the loop that fills the FIFO before the stream starts
Prefill(p) ==
    IF GetWriteAvail(p) > 0 /\ p.m_refill_pending THEN Prefill(PlayerRefill(p))
    ELSE p

\* SoundPlayer::Open and SoundPlayerBackend::Open: the FIFO is cleared and
\* the stream opened; a backend that fails to open is deleted
OpenCall ==
    /\ player.open
    /\ player.call.op = "idle"
    /\ player.thread = "none"
    /\ \E ok \in BOOLEAN :
         player' = IF player.m_stream \/ ok
                   THEN [player EXCEPT !.backend = TRUE,
                                       !.m_stream = TRUE,
                                       !.m_write_cnt = 0,
                                       !.m_read_cnt = 0]
                   ELSE NewPlayer
    /\ NotPlayed

\* SoundPlayer::Write of len chunks is entered
WriteCall ==
    /\ player.open
    /\ player.call.op = "idle"
    /\ player.backend /\ player.m_stream
    /\ \E len \in 1..MaxSound :
         /\ player.m_write_pos + len <= MaxWritten
         /\ player' = [player EXCEPT
                         !.call = [IdleCall EXCEPT !.op = "write",
                                                   !.pc = "start",
                                                   !.arg = len]]
    /\ NotPlayed

\* Write: the stream is started once the FIFO is half full
WriteStart ==
    /\ player.open
    /\ player.call.op = "write" /\ player.call.pc = "start"
    /\ \E ok \in BOOLEAN :
         player' =
           [(IF GetWriteAvail(player) <= GetReadAvail(player)
                  /\ ~player.m_stream_started
             THEN StartStream(player, ok) ELSE player)
            EXCEPT !.call.pc = "transfer"]
    /\ NotPlayed

\* Write: the wait for space while the stream runs, then the transfer
WriteTransfer ==
    LET free == GetWriteAvail(player)
        n    == Lesser(player.call.arg, free)
    IN  /\ player.open
        /\ player.call.op = "write" /\ player.call.pc = "transfer"
        /\ ~(free = 0 /\ player.m_stream_started)
        /\ player' =
             IF n = 0 \/ n = player.call.arg
             THEN [player EXCEPT !.m_write_cnt = @ + n,
                                 !.m_write_pos = @ + n,
                                 !.wrote = @ \/ n > 0,
                                 !.call = IdleCall]
             ELSE [player EXCEPT !.m_write_cnt = @ + n,
                                 !.m_write_pos = @ + n,
                                 !.wrote = TRUE,
                                 !.call.arg = @ - n,
                                 !.call.pc = "start"]
        /\ NotPlayed

\* SoundPlayer::Stop is entered: m_stopping = true
StopCall ==
    /\ player.open
    /\ player.call.op = "idle"
    /\ player.backend
    /\ player' = [player EXCEPT
                    !.m_stopping = TRUE,
                    !.call = [IdleCall EXCEPT !.op = "stop",
                                              !.pc = "stream"]]
    /\ NotPlayed

\* SoundPlayer::Play of a sound of len chunks is entered; it begins with
\* Stop: m_stopping = true
PlayCall ==
    /\ player.open
    /\ player.call.op = "idle"
    /\ \E len \in 1..MaxSound :
         /\ player.m_write_pos + len <= MaxWritten
         /\ player' = [player EXCEPT
                         !.backend = TRUE,
                         !.m_stopping = TRUE,
                         !.call = [IdleCall EXCEPT !.op = "play",
                                                   !.pc = "stream",
                                                   !.arg = len]]
    /\ NotPlayed

\* Stop: FinishStream
StopStreams ==
    /\ player.open
    /\ player.call.pc = "stream"
    /\ player' = [FinishStream(player) EXCEPT !.call.pc = "join"]
    /\ NotPlayed

\* Stop: FinishThread joins the refill thread, then the end of Stop
StopJoin ==
    /\ player.open
    /\ player.call.pc = "join" /\ player.call.op \in {"stop", "play"}
    /\ player.thread \in {"none", "done"}
    /\ player' = [player EXCEPT
                    !.thread = "none",
                    !.m_stopping = FALSE,
                    !.call = IF player.call.op = "stop" THEN IdleCall
                             ELSE [@ EXCEPT !.pc = "open"]]
    /\ NotPlayed

\* Play after its Stop: Open, the FIFO filled, the stream and the refill
\* thread started; a backend that fails to play is deleted
PlayRest ==
    /\ player.open
    /\ player.call.op = "play" /\ player.call.pc = "open"
    /\ \E opened \in BOOLEAN, started \in BOOLEAN :
         LET p == [player EXCEPT !.m_stream = TRUE,
                                 !.m_write_cnt = 0,
                                 !.m_read_cnt = 0,
                                 !.sound = player.call.arg,
                                 !.m_write_pos = @ + player.call.arg,
                                 !.m_refill_pending = TRUE,
                                 !.m_stopping = FALSE,
                                 !.wrote = FALSE]
             q == StartStream(Prefill(p), TRUE)
         IN  player' =
               IF opened /\ started
               THEN [q EXCEPT !.thread = IF q.m_refill_pending THEN "test"
                                         ELSE "none",
                              !.call = IdleCall]
               ELSE NewPlayer
    /\ NotPlayed

\* SoundPlayerBackend::Flush up to its first wait
PlayerFlushCall ==
    /\ player.open
    /\ player.call.op = "idle"
    /\ player.backend
    /\ \E t \in 0..MaxTimeout, ok \in BOOLEAN :
         LET p == IF player.m_stream /\ ~player.m_stream_started
                       /\ GetReadAvail(player) > 0
                  THEN StartStream(player, ok) ELSE player
             c == [IdleCall EXCEPT !.op = "flush", !.arg = t]
         IN  player' =
               IF t <= 0 THEN p
               ELSE IF t < GetTimeLeft(p)
               THEN [p EXCEPT !.call = [c EXCEPT !.pc = "sleep",
                                                 !.sleep = t,
                                                 !.then = "return"]]
               ELSE [p EXCEPT !.call = [c EXCEPT !.pc = "join"]]
    /\ NotPlayed

\* Flush: FinishThread joins the refill thread
FlushJoin ==
    /\ player.open
    /\ player.call.op = "flush" /\ player.call.pc = "join"
    /\ player.thread \in {"none", "done"}
    /\ player' = [player EXCEPT !.thread = "none", !.call.pc = "loop"]
    /\ NotPlayed

\* Flush: the loop that waits for the audio stream to complete
FlushLoop ==
    LET t_left == GetTimeLeft(player)
    IN  /\ player.open
        /\ player.call.op = "flush" /\ player.call.pc = "loop"
        /\ player' =
             IF t_left > 0
             THEN [player EXCEPT !.call.pc = "sleep",
                                 !.call.sleep = Lesser(t_left, TMax),
                                 !.call.then = "loop"]
             ELSE [player EXCEPT !.call = IdleCall]
        /\ NotPlayed

\* Flush: Pa_Sleep returns
FlushWake ==
    /\ player.open
    /\ player.call.op = "flush" /\ player.call.pc = "sleep"
    /\ player.call.sleep = 0
    /\ player' = [player EXCEPT
                    !.call = IF player.call.then = "return" THEN IdleCall
                             ELSE [@ EXCEPT !.pc = "loop"]]
    /\ NotPlayed

\* one chunk time passes: the clock of a started stream and of Pa_Sleep
Tick ==
    /\ player.open
    /\ player.m_stream_started \/ player.call.sleep > 0
    /\ player' = [player EXCEPT
                    !.dt = IF player.m_stream_started
                           THEN Lesser(@ + 1, MaxWritten) ELSE @,
                    !.call.sleep = IF @ > 0 THEN @ - 1 ELSE @,
                    !.call.waited =
                        IF player.call.sleep > 0
                        THEN Lesser(@ + 1, MaxTimeout + 2) ELSE @]
    /\ NotPlayed

\* SoundPlayerBackend::OnChunk, called while the stream is started
OnChunk ==
    /\ player.open
    /\ player.m_stream_started
    /\ player' = [player EXCEPT
                    !.m_read_cnt = @ + Lesser(1, GetReadAvail(player))]
    /\ NotPlayed

\* RefillThread: the test of the while loop
RefillTest ==
    /\ player.open
    /\ player.thread = "test"
    /\ player' = [player EXCEPT
                    !.thread = IF player.m_refill_pending THEN "body"
                               ELSE "done"]
    /\ NotPlayed

\* RefillThread: the body of the while loop
RefillBody ==
    /\ player.open
    /\ player.thread = "body"
    /\ player' = [(IF GetWriteAvail(player) > 0 THEN PlayerRefill(player)
                   ELSE player)
                  EXCEPT !.thread = "test"]
    /\ NotPlayed

NextPlayer ==
    \/ OpenCall
    \/ WriteCall
    \/ WriteStart
    \/ WriteTransfer
    \/ StopCall
    \/ PlayCall
    \/ StopStreams
    \/ StopJoin
    \/ PlayRest
    \/ PlayerFlushCall
    \/ FlushJoin
    \/ FlushLoop
    \/ FlushWake
    \/ Tick
    \/ OnChunk
    \/ RefillTest
    \/ RefillBody

SpecPlayer == InitPlayer /\ [][NextPlayer]_vars

\* the refill thread and the caller inside Stop are scheduled, and a started
\* stream calls back
SpecPlayerFair ==
    /\ SpecPlayer
    /\ WF_vars(RefillTest)
    /\ WF_vars(RefillBody)
    /\ WF_vars(StopStreams)
    /\ WF_vars(StopJoin)
    /\ WF_vars(OnChunk)

-----------------------------------------------------------------------------
(* C17: Stop with a running refill thread *)

\* Stop is under way and has a refill thread to join
Stopping ==
    /\ player.open
    /\ player.call.op = "stop"
    /\ player.thread # "none"

\* C17: whenever Stop is called on a player whose refill thread is running,
\* the thread exits and Stop returns.
C17_StopReturns == Stopping ~> ~Stopping

-----------------------------------------------------------------------------
(* C19: the time Flush waits *)

\* C19: Flush(t) has slept at most about t chunk times, in every state of
\* the player (Flush(0) returns within PlayerFlushCall and never sleeps).
C19_FlushBounded ==
    (player.open /\ player.call.op = "flush") =>
        player.call.waited <= player.call.arg + 1

\* the same for a Flush that found written audio only on a started stream
C19_WhenStarted ==
    (player.open /\ player.call.op = "flush" /\ player.m_stream_started) =>
        player.call.waited <= player.call.arg + 1

-----------------------------------------------------------------------------
(* SoundRecorder: a reader inside Read, the capture callback and Stop.
   Samples are counted in chunks. *)

\* most chunks one Read asks for
MaxCnt == 2

\* most chunks the callback captures
MaxCaptured == 3

\* most chunks asked for over all the Read calls
MaxReadPos == 4

\* the reader is outside Read; data and pads tell what its last Read
\* delivered, pad_avail what the FIFO held when that Read padded
IdleRead == [pc |-> "idle", cnt |-> 0, avail |-> 0, data |-> 0, pads |-> 0,
             pad_avail |-> 0]

\* SoundRecorder::Open has succeeded
NewRecorder ==
    [open |-> TRUE, m_stream |-> TRUE, m_stream_started |-> FALSE,
     m_length |-> 0, m_read_pos |-> 0, m_write_cnt |-> 0, m_read_cnt |-> 0,
     rd |-> IdleRead]

InitRecorder ==
    /\ ParserInit
    /\ hist = <<>>
    /\ flushed = FALSE
    /\ archive = NoArchive
    /\ tape = <<>>
    /\ dbyte = NoByte
    /\ NoDecoder
    /\ NoWindows
    /\ encoder = NoBackend
    /\ source = NoBackend /\ player = NoBackend /\ session = NoBackend
    /\ recorder = NewRecorder

NotRecorded ==
    UNCHANGED <<pvars, hist, flushed, avars, dbyte, dvars, wvars, encoder,
                source, player>>

\* SoundRecorderBackend::Read is entered: m_read_pos += cnt
ReadEnter(r, cnt) ==
    [r EXCEPT !.m_read_pos = @ + cnt,
              !.rd = [IdleRead EXCEPT !.pc = "avail", !.cnt = cnt]]

\* a thread calls Read
RecorderReadCall ==
    /\ recorder.open /\ ~session.open
    /\ recorder.rd.pc = "idle"
    /\ \E cnt \in 1..MaxCnt :
         /\ recorder.m_read_pos + cnt <= MaxReadPos
         /\ recorder' = ReadEnter(recorder, cnt)
    /\ NotRecorded /\ UNCHANGED session

\* Read: the test of the outer loop and avail = GetReadAvail()
ReadAvail ==
    /\ recorder.open
    /\ recorder.rd.pc = "avail"
    /\ recorder' =
         IF recorder.rd.cnt = 0 THEN [recorder EXCEPT !.rd.pc = "idle"]
         ELSE [recorder EXCEPT !.rd.pc = "check",
                               !.rd.avail = GetReadAvail(recorder)]
    /\ NotRecorded /\ UNCHANGED session

\* Read: the test of the inner loop with IsRunning(), then the sleep, or the
\* break and the padding, or the transfer from the FIFO
ReadCheck ==
    LET rd == recorder.rd
        n  == Lesser(rd.cnt, GetReadAvail(recorder))
    IN  /\ recorder.open
        /\ rd.pc = "check"
        /\ recorder' =
             IF rd.avail = 0 /\ recorder.m_stream_started
             THEN [recorder EXCEPT !.rd.pc = "wait"]
             ELSE IF rd.avail = 0
             THEN [recorder EXCEPT
                     !.rd.pc = "idle",
                     !.rd.cnt = 0,
                     !.rd.pads = rd.cnt,
                     !.rd.pad_avail = GetReadAvail(recorder)]
             ELSE [recorder EXCEPT
                     !.m_read_cnt = @ + n,
                     !.rd.pc = "avail",
                     !.rd.cnt = @ - n,
                     !.rd.data = @ + n]
        /\ NotRecorded /\ UNCHANGED session

\* Read: after Pa_Sleep, avail = GetReadAvail()
ReadWait ==
    /\ recorder.open
    /\ recorder.rd.pc = "wait"
    /\ recorder' = [recorder EXCEPT !.rd.pc = "check",
                                    !.rd.avail = GetReadAvail(recorder)]
    /\ NotRecorded /\ UNCHANGED session

\* SoundRecorderBackend::OnChunk, called while the stream is started
RecorderOnChunk ==
    LET n == Lesser(1, GetWriteAvail(recorder))
    IN  /\ recorder.open
        /\ recorder.m_stream_started
        /\ recorder.m_write_cnt < MaxCaptured
        /\ recorder' = [recorder EXCEPT !.m_write_cnt = @ + n,
                                        !.m_length = @ + n]
        /\ NotRecorded /\ UNCHANGED session

\* SoundRecorder::Start, called by another thread than the reader
RecorderStart ==
    /\ recorder.open /\ ~session.open
    /\ \E ok \in BOOLEAN :
         recorder' = [recorder EXCEPT !.m_stream_started = @ \/ ok]
    /\ NotRecorded /\ UNCHANGED session

\* SoundRecorder::Stop, called by another thread than the reader
RecorderStop ==
    /\ recorder.open /\ ~session.open
    /\ recorder' = [recorder EXCEPT !.m_stream_started = FALSE]
    /\ NotRecorded /\ UNCHANGED session

NextRecorder ==
    \/ RecorderReadCall
    \/ ReadAvail
    \/ ReadCheck
    \/ ReadWait
    \/ RecorderOnChunk
    \/ RecorderStart
    \/ RecorderStop

SpecRecorder == InitRecorder /\ [][NextRecorder]_vars

-----------------------------------------------------------------------------
(* C20: what Read delivers *)

\* C20: a Read that padded with zeros did so with the stream stopped and the
\* FIFO empty at that moment, so that no captured sample is skipped over.
C20_PadWhenEmpty ==
    recorder.open =>
        (recorder.rd.pads > 0 => recorder.rd.pad_avail = 0)

-----------------------------------------------------------------------------
(* the record command: one thread that reads, shows and writes chunks, and
   the signal handler *)

\* most chunks written to the file
MaxFile == 3

\* record() is entered
NewSession ==
    [open |-> TRUE, pc |-> "start", g_broken |-> FALSE, signalled |-> FALSE,
     at_signal |-> 0, written |-> 0, zeros |-> 0, status |-> 0]

InitRecord ==
    /\ ParserInit
    /\ hist = <<>>
    /\ flushed = FALSE
    /\ archive = NoArchive
    /\ tape = <<>>
    /\ dbyte = NoByte
    /\ NoDecoder
    /\ NoWindows
    /\ encoder = NoBackend
    /\ source = NoBackend /\ player = NoBackend /\ recorder = NoBackend
    /\ session = NewSession

\* sigint_handler; at_signal tells how many chunks were captured by then
Signal ==
    /\ session.open
    /\ session.pc # "done"
    /\ ~session.signalled
    /\ session' = [session EXCEPT
                     !.g_broken = TRUE,
                     !.signalled = TRUE,
                     !.at_signal = IF recorder.open
                                   THEN recorder.m_write_cnt ELSE 0]
    /\ NotRecorded /\ UNCHANGED recorder

\* record: the recorder and the writer are opened, the recorder is started
RecordOpen ==
    /\ session.open
    /\ session.pc = "start"
    /\ \E read_ok \in BOOLEAN, write_ok \in BOOLEAN, start_ok \in BOOLEAN :
         /\ recorder' = IF read_ok
                        THEN [NewRecorder EXCEPT
                                !.m_stream_started = start_ok]
                        ELSE NoBackend
         /\ session' = [session EXCEPT
                          !.pc = IF read_ok /\ write_ok THEN "loop"
                                 ELSE "done",
                          !.g_broken = IF read_ok /\ write_ok THEN @
                                       ELSE FALSE,
                          !.status = IF ~(read_ok /\ write_ok)
                                        /\ ~session.g_broken THEN 1 ELSE 0]
    /\ NotRecorded

\* record: recorder.Read(chunk, chunk_len) is called
RecordRead ==
    /\ session.open
    /\ session.pc = "loop"
    /\ session.written + session.zeros < MaxFile
    /\ recorder' = ReadEnter(recorder, 1)
    /\ session' = [session EXCEPT !.pc = "reading"]
    /\ NotRecorded

\* record: Read has returned; the chunk is shown, then on g_broken the
\* recorder is stopped and the loop left, else the chunk is written
RecordProcess ==
    /\ session.open
    /\ session.pc = "reading"
    /\ recorder.rd.pc = "idle"
    /\ IF session.g_broken
       THEN /\ recorder' = [recorder EXCEPT !.m_stream_started = FALSE]
            /\ session' = [session EXCEPT !.pc = "done",
                                          !.g_broken = FALSE,
                                          !.status = 0]
       ELSE /\ UNCHANGED recorder
            /\ \E write_ok \in BOOLEAN :
                 session' =
                   IF write_ok
                   THEN [session EXCEPT
                           !.pc = "loop",
                           !.written = @ + recorder.rd.data,
                           !.zeros = @ + recorder.rd.pads]
                   ELSE [session EXCEPT !.pc = "done", !.status = 1]
    /\ NotRecorded

NextRecord ==
    \/ Signal
    \/ RecordOpen
    \/ RecordRead
    \/ RecordProcess
    \/ ReadAvail
    \/ ReadCheck
    \/ ReadWait
    \/ RecorderOnChunk

SpecRecord == InitRecord /\ [][NextRecord]_vars

-----------------------------------------------------------------------------
(* C18: what a recording stopped by the signal retains *)

\* C18: when the signal ends the recording, every chunk captured up to the
\* signal, read already or still in the FIFO, is in the file.
C18_Retained ==
    (session.open /\ session.pc = "done" /\ session.signalled
        /\ session.status = 0 /\ recorder.open) =>
        session.written >= session.at_signal

-----------------------------------------------------------------------------
(* C21: the range of the player's times *)

\* Play was called on this backend and only the sound it was given is the
\* input
PlayingSound ==
    /\ player.open /\ player.backend
    /\ player.call.op = "idle"
    /\ player.sound > 0 /\ ~player.wrote

\* C21: GetElapsedTime() and GetTimeLeft() lie between 0 and the duration of
\* the sound being played, also when the player has played a sound before.
C21_Range ==
    PlayingSound =>
        /\ GetElapsedTime(player) \in 0..player.sound
        /\ GetTimeLeft(player) \in 0..player.sound

\* the same bound with the durations of all the sounds played so far
C21_Accumulated ==
    PlayingSound =>
        /\ GetElapsedTime(player) \in 0..player.m_write_pos
        /\ GetTimeLeft(player) \in 0..player.m_write_pos

-----------------------------------------------------------------------------
(* the commands of the tool and the status each hands to main *)

\* most bytes decoded or files extracted by one command
MaxItems == 2

Commands == {"extract", "decode", "encode", "play"}

\* main has parsed its options: cmd is the command given; the other fields
\* say what the run will meet: items bytes or files of which errors carry a
\* byte error, whether the output directory can be prepared (dir_ok), the
\* output or the audio device opened (open_ok) and written or closed
\* (write_ok), the input read as asked (read_ok: as a tape archive by encode,
\* as a sound by play), the sound played (audio_ok)
InitExit ==
    /\ ParserInit
    /\ hist = <<>>
    /\ flushed = FALSE
    /\ archive = NoArchive
    /\ tape = <<>>
    /\ dbyte = NoByte
    /\ NoDecoder
    /\ NoWindows
    /\ encoder = NoBackend
    /\ source = NoBackend /\ player = NoBackend /\ recorder = NoBackend
    /\ \E cmd \in Commands, items \in 0..MaxItems,
          dir_ok \in BOOLEAN, open_ok \in BOOLEAN, write_ok \in BOOLEAN,
          read_ok \in BOOLEAN, audio_ok \in BOOLEAN :
         \E errors \in 0..items :
            session = [open |-> TRUE, pc |-> "start", cmd |-> cmd,
                       items |-> items, errors |-> errors,
                       dir_ok |-> dir_ok, open_ok |-> open_ok,
                       write_ok |-> write_ok, read_ok |-> read_ok,
                       audio_ok |-> audio_ok, status |-> 0]

\* the process ends with this exit code
Exit(code) ==
    /\ session' = [session EXCEPT !.pc = "done", !.status = code]
    /\ NotRecorded /\ UNCHANGED recorder

\* extract, with extract_file: exit(1) when the directory cannot be prepared
\* or a file not written, 1 when a file had byte errors
extract ==
    /\ session.open /\ session.pc = "start" /\ session.cmd = "extract"
    /\ Exit(IF ~session.dir_ok THEN 1
            ELSE IF session.items > 0
                    /\ ~(session.open_ok /\ session.write_ok) THEN 1
            ELSE IF session.errors > 0 THEN 1
            ELSE 0)

\* decode: the bytes are read and counted only when fopen succeeded
decode ==
    /\ session.open /\ session.pc = "start" /\ session.cmd = "decode"
    /\ Exit(IF session.open_ok
            THEN IF session.items > 0 /\ ~session.write_ok THEN 1
                 ELSE IF session.errors > 0 THEN 1
                 ELSE 0
            ELSE 0)

\* the status of encode(iname, opt_oname): playing when there is no oname
EncodeStatus(oname) ==
    LET opened == IF oname THEN session.open_ok ELSE session.audio_ok
    IN  IF opened /\ ~session.read_ok THEN 1
        ELSE IF opened /\ session.write_ok THEN 0
        ELSE 1

\* encode
encode ==
    /\ session.open /\ session.pc = "start" /\ session.cmd = "encode"
    /\ Exit(EncodeStatus(TRUE))

\* play: a sound file is played and 0 returned, whatever Play returned;
\* any other file goes to encode as a tape archive
play ==
    /\ session.open /\ session.pc = "start" /\ session.cmd = "play"
    /\ \E is_sound \in BOOLEAN :
         Exit(IF is_sound THEN 0 ELSE EncodeStatus(FALSE))

NextExit == extract \/ decode \/ encode \/ play

SpecExit == InitExit /\ [][NextExit]_vars

-----------------------------------------------------------------------------
(* C22: the exit code *)

\* the command has ended
Ended == session.open /\ session.pc = "done"

\* an output could not be opened or written, or the audio not played
OutputFailed ==
    \/ session.cmd = "extract"
         /\ (~session.dir_ok
             \/ (session.items > 0
                 /\ ~(session.open_ok /\ session.write_ok)))
    \/ session.cmd = "decode"
         /\ (~session.open_ok \/ (session.items > 0 /\ ~session.write_ok))
    \/ session.cmd = "encode"
         /\ ~(session.open_ok /\ session.write_ok)
    \/ session.cmd = "play" /\ ~session.audio_ok

\* C22: the exit code is non-zero whenever a byte error occurred during
\* extraction or an output could not be opened or written or the audio not
\* be played.
C22_ExitCode ==
    (Ended /\ (OutputFailed
               \/ (session.cmd = "extract" /\ session.errors > 0)))
        => session.status # 0

\* the same without the decode and the play command
C22_ExtractEncode ==
    (Ended /\ session.cmd \in {"extract", "encode"}
        /\ (OutputFailed
            \/ (session.cmd = "extract" /\ session.errors > 0)))
        => session.status # 0

-----------------------------------------------------------------------------
(* FileBackend on a file of one or two channels: what a read of one mono
   sample returns *)

\* most frames of a sound file
MaxLength == 4

\* highest sample rate, which is the size of a cache block
MaxRate == 3

\* the sample values of the files
SampleValues == {-3, 4}

\* C's integer division, which truncates toward zero
TruncDiv(a, b) == IF a < 0 THEN -((-a) \div b) ELSE a \div b

RECURSIVE SumOf(_)
SumOf(frame) == IF frame = <<>> THEN 0 ELSE frame[1] + SumOf(Tail(frame))

\* average_channels on one frame
average_channels(frame) == TruncDiv(SumOf(frame), Len(frame))

\* FileBackend::FileBackend: m_length in mono samples
MonoLength(f) == Len(f.frames)

\* FileBackend::FileBackend: m_block_size, one second or the whole file
BlockSize(f) == Lesser(f.rate, MonoLength(f))

\* GetBlock: the size it gives block at_block_no; length is the reader's,
\* counted in samples of all channels
BlockAlloc(f, at_block_no) ==
    LET length == Len(f.frames) * f.channels
        at_pos == at_block_no * BlockSize(f)
    IN  IF BlockSize(f) > length - at_pos THEN length - at_pos
        ELSE BlockSize(f)

\* SoundReader::Read of cnt samples from position pos succeeds when they lie
\* in the file
ReaderRead(f, pos, cnt) == pos + cnt <= Len(f.frames) * f.channels

\* GetBlock on a seekable file with an empty cache: whether the block is
\* loaded
BlockLoaded(f, block_no) ==
    ReaderRead(f, block_no * BlockSize(f) * f.channels,
               BlockAlloc(f, block_no) * f.channels)

\* ReadFromCache of one sample: whether it succeeds, and the sample
ReadFromCache(f, where) ==
    LET block_no == where \div BlockSize(f)
    IN  IF BlockLoaded(f, block_no)
        THEN [where |-> where, ok |-> TRUE,
              sample |-> average_channels(f.frames[where + 1])]
        ELSE [where |-> where, ok |-> FALSE, sample |-> 0]

\* a sound file was opened; nothing was read yet
InitStereo ==
    /\ ParserInit
    /\ hist = <<>>
    /\ flushed = FALSE
    /\ archive = NoArchive
    /\ tape = <<>>
    /\ dbyte = NoByte
    /\ NoDecoder
    /\ NoWindows
    /\ encoder = NoBackend
    /\ player = NoBackend /\ recorder = NoBackend /\ session = NoBackend
    /\ \E channels \in 1..2, len \in 1..MaxLength, rate \in 1..MaxRate :
         \E frames \in [1..len -> [1..channels -> SampleValues]] :
            source = [open |-> TRUE, cached |-> FALSE, channels |-> channels,
                      rate |-> rate, frames |-> frames,
                      read |-> [where |-> 0, ok |-> TRUE, sample |-> 0]]

\* FileBackend::Read of the sample at one position inside the file
ReadSample ==
    /\ source.open
    /\ ~source.cached
    /\ \E where \in 0..(MonoLength(source) - 1) :
         source' = [source EXCEPT !.cached = TRUE,
                                  !.read = ReadFromCache(source, where)]
    /\ NotCached

NextStereo == ReadSample

SpecStereo == InitStereo /\ [][NextStereo]_vars

-----------------------------------------------------------------------------
(* C23: reading a stereo file as mono *)

\* C23: every position of a file of one or more channels is read
\* successfully and gives the average of the channels of its frame.
C23_Averaged ==
    (source.open /\ source.cached) =>
        /\ source.read.ok
        /\ source.read.sample
             = average_channels(source.frames[source.read.where + 1])

\* the same for files of one channel, and for files whose length is a
\* multiple of the block size
C23_WholeBlocks ==
    (source.open /\ source.cached
        /\ (source.channels = 1
            \/ MonoLength(source) % BlockSize(source) = 0)) =>
        /\ source.read.ok
        /\ source.read.sample
             = average_channels(source.frames[source.read.where + 1])

-----------------------------------------------------------------------------
(* Specification SpecRead: TapeDecoder::ReadFile over a tape of files *)

MaxTapeFiles == 2  \* files after which the tape ends
MaxPicked == 2     \* bytes one ReadByte call picks before the tape ends
MaxClock == 1      \* latest onset time of a byte of the tape

\* The values and error flags of the bytes of the tape, drawn when a byte
\* is picked (nothing reads them in a peek buffer before): a plain sync
\* whose first byte may have a sync error, a BASIC header giving length 2,
\* an empty name, payload bytes 0x16 and 0x41, the last with or without a
\* sync error
TapeBytes(p) ==
    IF p.section_type = ST_SYNC
    THEN (IF p.payload_active
          THEN (IF p.payload_offs = 0 THEN {<<22, FALSE>>}
                ELSE {<<65, FALSE>>, <<65, TRUE>>})
          ELSE IF p.section_offs = 0 THEN {<<22, FALSE>>, <<22, TRUE>>}
          ELSE IF p.section_offs < 3 THEN {<<22, FALSE>>}
          ELSE {<<36, FALSE>>})
    ELSE IF p.section_type = ST_HEADER
    THEN (IF p.section_offs = 5 THEN {<<1, FALSE>>} ELSE {<<0, FALSE>>})
    ELSE {<<0, FALSE>>}

\* DecoderBackend::DecodeByte on the tape: end of tape, or a byte not
\* earlier than the previous byte of the same back-end
TapeDecoded(kind, d, lo) ==
    {[ok |-> FALSE]} \cup
    { [ok |-> TRUE,
       b |-> [time |-> t, slow |-> sl, byte |-> 0,
              parity_error |-> FALSE, sync_error |-> FALSE]] :
        t \in (IF Len(d.picked) < MaxPicked /\ Len(d.p.out) < MaxTapeFiles
               THEN lo..MaxClock ELSE {}),
        sl \in SlowOf(kind, d.o) }

\* TapeDecoder::ReadByte on the tape: every way the call can end
RECURSIVE TapeOutcomes(_)
TapeOutcomes(d) ==
    IF ~(d.ok0 \/ d.ok1) THEN {[d EXCEPT !.ret = FALSE]}
    ELSE LET pick0 == PickBackend0(d)
             peek == IF pick0 THEN d.b0 ELSE d.b1
             kind == IF pick0 THEN Backend0Kind(d.o) ELSE Backend1Kind(d.o)
         IN  UNION { LET w == Weave(Refill(d, pick0, r),
                                    [peek EXCEPT !.byte = v[1],
                                                 !.sync_error = v[2]])
                     IN  IF w.ret THEN {w} ELSE TapeOutcomes(w) :
                     r \in TapeDecoded(kind, d, peek.time),
                     v \in TapeBytes(d.p) }

\* the TapeFile objects of a sequence of OnFile calls
FilesOf(q) == [i \in 1..Len(q) |-> q[i].file]

\* TapeDecoder::OnFile, for the OnFile calls a step has added
DecoderOnFile(s, new) ==
    IF new # <<>> /\ s.m_result_file
    THEN [s EXCEPT !.result = new[Len(new)],
                   !.m_result_file_produced = TRUE]
    ELSE s

\* TapeDecoder::TapeDecoder and Open, and a caller that has not called yet
InitRead ==
    /\ ParserInit
    /\ hist = <<>>
    /\ flushed = FALSE
    /\ archive = NoArchive
    /\ tape = <<>>
    /\ dbyte = NoByte
    /\ NoWindows
    /\ encoder = NoBackend
    /\ source = NoBackend /\ player = NoBackend /\ recorder = NoBackend
    /\ m_options \in { o \in DecoderOptions :
                         /\ ~(o.fast /\ o.slow)
                         /\ (o.dual => o.sound /\ ~o.fast /\ ~o.slow) }
    /\ m_select_fast = SelectFast(m_options)
    /\ m_select_slow = SelectSlow(m_options)
    /\ produced = 0
    /\ \E r0 \in TapeDecoded(Backend0Kind(m_options),
                             [picked |-> <<>>, p |-> NewParser,
                              o |-> m_options], 0) :
         /\ m_backend0_byte_ok = r0.ok
         /\ m_backend0_byte = IF r0.ok THEN r0.b ELSE NoDecoded
    /\ \E r1 \in TapeDecoded(Backend1Kind(m_options),
                             [picked |-> <<>>, p |-> NewParser,
                              o |-> m_options], 0) :
         /\ m_backend1_byte_ok = r1.ok
         /\ m_backend1_byte = IF r1.ok THEN r1.b ELSE NoDecoded
    /\ fed = <<>>
    /\ returned = <<>>
    /\ picked = <<>>
    /\ session = [open |-> TRUE, pc |-> "idle",
                  m_result_file |-> FALSE,
                  m_result_file_produced |-> FALSE,
                  result |-> ZeroFile,
                  made |-> 0, ret |-> FALSE,
                  delivered |-> <<>>]

\* ReadFile: m_result_file = file; m_result_file_produced = false
ReadFileCall ==
    /\ session.pc = "idle"
    /\ Len(session.delivered) < MaxTapeFiles
    /\ session' = [session EXCEPT !.pc = "loop",
                                  !.m_result_file = TRUE,
                                  !.m_result_file_produced = FALSE]
    /\ UNCHANGED <<pvars, hist, flushed, avars, dbyte, dvars, wvars,
                   encoder, source, player, recorder>>

\* ReadFile: one turn of while (ReadByte(&b)), and what follows the loop
ReadFileLoop ==
    /\ session.pc = "loop"
    /\ \E w \in TapeOutcomes(Decoder) :
         LET new == SubSeq(FilesOf(w.p.out), Len(out) + 1, Len(w.p.out))
             s == [DecoderOnFile(session, new) EXCEPT !.made = Len(new),
                                                      !.ret = w.ret]
             q == Flush(w.p)
             t == DecoderOnFile(s, SubSeq(FilesOf(q.out),
                                          Len(w.p.out) + 1, Len(q.out)))
         IN  /\ m_select_fast' = w.select_fast
             /\ m_select_slow' = w.select_slow
             /\ m_backend0_byte_ok' = w.ok0
             /\ m_backend0_byte' = w.b0
             /\ m_backend1_byte_ok' = w.ok1
             /\ m_backend1_byte' = w.b1
             /\ fed' = w.fed
             /\ picked' = w.picked
             /\ IF w.ret
                THEN /\ SetParser(w.p)
                     /\ flushed' = flushed
                     /\ session' =
                          IF s.m_result_file_produced
                          THEN [s EXCEPT !.pc = "idle",
                                         !.m_result_file = FALSE,
                                         !.delivered = Append(@, s.result)]
                          ELSE s
                ELSE /\ SetParser(q)
                     /\ flushed' = TRUE
                     /\ session' =
                          [t EXCEPT !.pc = "idle",
                                    !.m_result_file = FALSE,
                                    !.delivered =
                                        IF t.m_result_file_produced
                                        THEN Append(@, t.result) ELSE @]
    /\ UNCHANGED <<m_options, produced, returned, hist, avars, dbyte, wvars,
                   encoder, source, player, recorder>>

NextRead == ReadFileCall \/ ReadFileLoop

SpecRead == InitRead /\ [][NextRead]_vars

-----------------------------------------------------------------------------
(* C24: one file per ReadByte call *)

\* C24: the latest ReadByte call produced at most one TapeFile, it
\* returned true if it produced one, and the files the ReadFile calls
\* have delivered are the files the parser has emitted, each once and in
\* the order of emission
C24_OneFile ==
    /\ session.made <= 1
    /\ (session.made > 0 => session.ret)
    /\ session.delivered = FilesOf(out)

\* two ReadFile calls have delivered two files; the second one was
\* produced by a ReadByte call that picked more than one byte
C24_Witness ==
    /\ Len(session.delivered) = 2
    /\ session.made = 1 /\ session.ret
    /\ Len(picked) > 1
    /\ session.pc = "idle"

\* a file was produced by the Flush at the end of the tape and delivered
C24_WitnessFlush ==
    /\ flushed /\ session.made = 0 /\ ~session.ret
    /\ Len(session.delivered) = 1
    /\ session.delivered[1].payload = <<22, PadByte>>

\* C24, in the parser: one PutByte makes at most one OnFile call, and none
\* when it meets the parser idle
C24_OnePerPut ==
    [][ ~flushed' =>
          /\ Len(out') <= Len(out) + 1
          /\ (Len(out') > Len(out) => ~IsIdle(Parser)) ]_vars

-----------------------------------------------------------------------------
(* C25: one format per file *)

\* the number of bytes put among the first i bytes a call picked
PutsUpTo(q, i) == Cardinality({ j \in 1..i : q[j].put })

\* the selection a call met at its i-th byte
SelectionBefore(q, i) ==
    IF i = 1 THEN <<m_select_fast, m_select_slow>>
    ELSE <<q[i - 1].select_fast, q[i - 1].select_slow>>

\* C25: a byte that ReadByte picks while the parser is not idle leaves
\* the format selection as it was, and if it is put to the parser it has
\* the slow flag of the byte put before it
C25_OneFormat ==
    [][ session.pc = "loop" =>
          \A i \in 1..Len(picked') :
              ~picked'[i].idle =>
                  /\ <<picked'[i].select_fast, picked'[i].select_slow>>
                       = SelectionBefore(picked', i)
                  /\ picked'[i].put =>
                       LET k == Len(fed') - PutsUpTo(picked', Len(picked'))
                                  + PutsUpTo(picked', i)
                       IN  /\ k > 1
                           /\ fed'[k - 1].slow = picked'[i].slow ]_vars

\* with a payload active, a call skipped a clean 0x16 of the other format
\* and put a byte of the format of the file; the file before was of the
\* other format
C25_Witness ==
    /\ Len(picked) = 2
    /\ ~picked[1].idle /\ ~picked[1].put /\ picked[1].clean
    /\ ~picked[2].idle /\ picked[2].put
    /\ picked[1].slow # picked[2].slow
    /\ m_payload_active /\ m_payload_offs = 1
    /\ m_payload_file.payload = <<22>>
    /\ Len(out) = 1 /\ out[1].file.slow # m_payload_file.slow

-----------------------------------------------------------------------------
(* C26: the parser's buffer indices *)

\* C26: the index of the next write is inside its buffer: below 9 in
\* HEADER, below 17 in NAME, and with a payload active at least 0 and
\* below len, which is at most 65536; the padding of FlushPayload
\* writes from that index up to len - 1
C26_InRange ==
    /\ (m_section_type = ST_HEADER =>
            m_section_offs >= 0 /\ m_section_offs < HeaderCapacity)
    /\ (m_section_type = ST_NAME =>
            m_section_offs >= 0 /\ m_section_offs < NameCapacity)
    /\ (m_payload_active =>
            /\ m_payload_offs >= 0
            /\ m_payload_offs < m_payload_file.len
            /\ m_payload_file.len <= PayloadCapacity)

\* the last element of the name buffer is the next to be written
C26_Witness ==
    /\ m_section_type = ST_NAME
    /\ m_section_offs = NameCapacity - 1

\* the last byte of a payload of 16 is the next to be written, inside the
\* name of the file that follows
C26_WitnessPayload ==
    /\ m_section_type = ST_NAME
    /\ m_payload_active
    /\ m_payload_file.len = 16
    /\ m_payload_offs = m_payload_file.len - 1

-----------------------------------------------------------------------------
(* Specification SpecFifo: the FIFO of the player and of the recorder,
   one thread in Write and one in Read, by statement *)

FifoSize == 2      \* m_size, in samples
MaxTransfer == 2   \* longest len of one Write or Read call

\* width of the model's int: the counters wrap as an int does
CntBits == 3

\* the value an int of CntBits bits holds after an operation gave x
WrapInt(x) == ((x + 2^(CntBits - 1)) % 2^CntBits) - 2^(CntBits - 1)

\* a sample that was never written
Junk == 2^CntBits

IdleTransfer == [pc |-> "idle", len |-> 0, amount |-> 0, k |-> 0]

\* Fifo::Alloc; the samples are numbered by the count at which they are
\* written; unread, overwritten and in_order observe the transfers
NewFifo ==
    [open |-> TRUE,
     m_size |-> FifoSize,
     m_buf |-> [i \in 1..FifoSize |-> Junk],
     m_write_cnt |-> 0, m_write_index |-> 0,
     m_read_cnt |-> 0, m_read_index |-> 0,
     w |-> IdleTransfer, r |-> IdleTransfer,
     unread |-> {}, overwritten |-> FALSE, in_order |-> TRUE]

InitFifo ==
    /\ ParserInit
    /\ hist = <<>>
    /\ flushed = FALSE
    /\ archive = NoArchive
    /\ tape = <<>>
    /\ dbyte = NoByte
    /\ NoDecoder
    /\ NoWindows
    /\ encoder = NoBackend
    /\ source = NoBackend /\ player = NoBackend /\ session = NoBackend
    /\ recorder = NewFifo

\* Fifo::GetReadAvail
FifoGetReadAvail(f) == WrapInt(f.m_write_cnt - f.m_read_cnt)

\* variant of the free space that takes the whole buffer as free
FifoGetWriteAvail_Size(f) == f.m_size

\* Fifo::GetWriteAvail
FifoGetWriteAvail(f) == f.m_size - FifoGetReadAvail(f)

\* amount = len, capped by avail and by distance_to_wrap
Amount(len, avail, distance_to_wrap) ==
    Lesser(len, Lesser(avail, distance_to_wrap))

\* a thread calls Fifo::Write
FifoWriteCall ==
    /\ recorder.w.pc = "idle"
    /\ \E len \in 1..MaxTransfer :
         recorder' = [recorder EXCEPT
                        !.w = [IdleTransfer EXCEPT !.pc = "avail",
                                                   !.len = len]]
    /\ NotRecorded /\ UNCHANGED session

\* Write: avail, distance_to_wrap, amount; if (amount == 0) break
FifoWriteAvail ==
    /\ recorder.w.pc = "avail"
    /\ LET amount == Amount(recorder.w.len, FifoGetWriteAvail(recorder),
                            recorder.m_size - recorder.m_write_index)
       IN  recorder' =
             IF amount = 0
             THEN [recorder EXCEPT !.w = IdleTransfer]
             ELSE [recorder EXCEPT !.w.pc = "copy", !.w.amount = amount,
                                   !.w.k = 0]
    /\ NotRecorded /\ UNCHANGED session

\* Write: memcpy(&(m_buf[m_write_index]), buf, amount), one sample
FifoWriteCopy ==
    /\ recorder.w.pc = "copy"
    /\ LET slot == recorder.m_write_index + recorder.w.k
       IN  recorder' =
             [recorder EXCEPT
                !.m_buf[slot + 1] = WrapInt(recorder.m_write_cnt
                                            + recorder.w.k),
                !.overwritten = @ \/ slot \in recorder.unread,
                !.unread = @ \cup {slot},
                !.w.k = @ + 1,
                !.w.pc = IF recorder.w.k + 1 = recorder.w.amount
                         THEN "count" ELSE "copy"]
    /\ NotRecorded /\ UNCHANGED session

\* the index after a transfer: if (index == m_size) index = 0
NextIndex(f, index, amount) ==
    IF index + amount = f.m_size THEN 0 ELSE index + amount

\* Write: len -= amount; m_write_cnt += amount; m_write_index += amount
FifoWriteCount ==
    /\ recorder.w.pc = "count"
    /\ recorder' =
         [recorder EXCEPT
            !.m_write_cnt = WrapInt(@ + recorder.w.amount),
            !.m_write_index = NextIndex(recorder, @, recorder.w.amount),
            !.w.len = @ - recorder.w.amount,
            !.w.pc = "avail"]
    /\ NotRecorded /\ UNCHANGED session

\* a thread calls Fifo::Read
FifoReadCall ==
    /\ recorder.r.pc = "idle"
    /\ \E len \in 1..MaxTransfer :
         recorder' = [recorder EXCEPT
                        !.r = [IdleTransfer EXCEPT !.pc = "avail",
                                                   !.len = len]]
    /\ NotRecorded /\ UNCHANGED session

\* Read: avail, distance_to_wrap, amount; if (amount == 0) break
FifoReadAvail ==
    /\ recorder.r.pc = "avail"
    /\ LET amount == Amount(recorder.r.len, FifoGetReadAvail(recorder),
                            recorder.m_size - recorder.m_read_index)
       IN  recorder' =
             IF amount = 0
             THEN [recorder EXCEPT !.r = IdleTransfer]
             ELSE [recorder EXCEPT !.r.pc = "copy", !.r.amount = amount,
                                   !.r.k = 0]
    /\ NotRecorded /\ UNCHANGED session

\* Read: memcpy(buf, &(m_buf[m_read_index]), amount), one sample
FifoReadCopy ==
    /\ recorder.r.pc = "copy"
    /\ LET slot == recorder.m_read_index + recorder.r.k
       IN  recorder' =
             [recorder EXCEPT
                !.in_order = @ /\ recorder.m_buf[slot + 1]
                                    = WrapInt(recorder.m_read_cnt
                                              + recorder.r.k),
                !.unread = @ \ {slot},
                !.r.k = @ + 1,
                !.r.pc = IF recorder.r.k + 1 = recorder.r.amount
                         THEN "count" ELSE "copy"]
    /\ NotRecorded /\ UNCHANGED session

\* Read: len -= amount; m_read_cnt += amount; m_read_index += amount
FifoReadCount ==
    /\ recorder.r.pc = "count"
    /\ recorder' =
         [recorder EXCEPT
            !.m_read_cnt = WrapInt(@ + recorder.r.amount),
            !.m_read_index = NextIndex(recorder, @, recorder.r.amount),
            !.r.len = @ - recorder.r.amount,
            !.r.pc = "avail"]
    /\ NotRecorded /\ UNCHANGED session

NextFifo ==
    \/ FifoWriteCall \/ FifoWriteAvail \/ FifoWriteCopy \/ FifoWriteCount
    \/ FifoReadCall \/ FifoReadAvail \/ FifoReadCopy \/ FifoReadCount

SpecFifo == InitFifo /\ [][NextFifo]_vars

-----------------------------------------------------------------------------
(* C27: the FIFO with one producer and one consumer *)

\* C27: the number of buffered samples, as GetReadAvail computes it, is
\* between 0 and m_size, no sample is written over one that was not yet
\* read, every sample read is the next one in the order of writing, and
\* both indices stay inside the buffer
C27_Fifo ==
    /\ FifoGetReadAvail(recorder) >= 0
    /\ FifoGetReadAvail(recorder) <= recorder.m_size
    /\ ~recorder.overwritten
    /\ recorder.in_order
    /\ recorder.m_write_index \in 0..(recorder.m_size - 1)
    /\ recorder.m_read_index \in 0..(recorder.m_size - 1)

\* both threads are copying, the writer behind the reader in the buffer,
\* after the write counter has wrapped
C27_Witness ==
    /\ recorder.w.pc = "copy" /\ recorder.r.pc = "copy"
    /\ recorder.m_write_index < recorder.m_read_index
    /\ recorder.m_write_cnt < 0 /\ recorder.m_read_cnt > 0

-----------------------------------------------------------------------------
(* Specification SpecSink: the encode command playing a tape, and the
   sink of its TapeEncoder.  Times are in ticks. *)

TicksPerSecond == 2  \* resolution of the clock
MaxDuration == 4     \* longest GetDuration(), in ticks

\* TapeEncoder after Open(0, slow) and PutFile; the player has played
\* nothing yet.  deref observes a call through m_sink after its deletion
InitSink ==
    /\ ParserInit
    /\ hist = <<>>
    /\ flushed = FALSE
    /\ archive = NoArchive
    /\ tape = <<>>
    /\ dbyte = NoByte
    /\ NoDecoder
    /\ NoWindows
    /\ source = NoBackend /\ player = NoBackend /\ recorder = NoBackend
    /\ \E d \in 1..MaxDuration :
         encoder = [open |-> TRUE, m_open |-> TRUE, m_sink |-> TRUE,
                    duration |-> d, elapsed |-> 0, deref |-> FALSE]
    /\ session = [open |-> TRUE, pc |-> "loop", t |-> 0, te |-> 0]

NotSink ==
    UNCHANGED <<pvars, hist, flushed, avars, dbyte, dvars, wvars, source,
                player, recorder>>

\* TapeEncoder::GetElapsedTime: m_sink->GetElapsedTime(), whatever the
\* value of m_sink; the outcomes are records [e, te]
EncGetElapsedTime(e) ==
    IF e.m_sink
    THEN {[e |-> e, te |-> e.elapsed]}
    ELSE { [e |-> [e EXCEPT !.deref = TRUE], te |-> v] : v \in 0..e.duration }

\* TapeEncoder::Close
EncClose(e) ==
    [e EXCEPT !.elapsed = IF e.m_open THEN e.duration ELSE @,
              !.m_open = FALSE,
              !.m_sink = FALSE]

\* TapeEncoder::Flush(t_timeout): sleep for the timeout if it is shorter
\* than the time left, else Close
EncFlush(e, t_timeout) ==
    { LET t_left == x.e.duration - x.te
      IN  IF t_timeout < t_left
          THEN [x.e EXCEPT !.elapsed = Lesser(x.e.duration, @ + t_timeout)]
          ELSE EncClose(x.e) :
      x \in EncGetElapsedTime(e) }

\* the player plays on while the command runs
SinkTick ==
    /\ session.pc \in {"loop", "flush"}
    /\ encoder.m_sink /\ encoder.elapsed < encoder.duration
    /\ encoder' = [encoder EXCEPT !.elapsed = @ + 1]
    /\ UNCHANGED session
    /\ NotSink

\* encode: for (t = 0; t <= t1; t++) if ((te = GetElapsedTime()) < t-.01)
LoopTest ==
    /\ session.pc = "loop"
    /\ IF session.t * TicksPerSecond <= encoder.duration
       THEN \E x \in EncGetElapsedTime(encoder) :
              /\ encoder' = x.e
              /\ session' =
                   IF x.te < session.t * TicksPerSecond
                   THEN [session EXCEPT !.pc = "flush", !.te = x.te]
                   ELSE [session EXCEPT !.t = @ + 1]
       ELSE /\ session' = [session EXCEPT !.pc = "last"]
            /\ UNCHANGED encoder
    /\ NotSink

\* encode: enc.Flush(t-te), and the t++ of the loop
LoopFlush ==
    /\ session.pc = "flush"
    /\ encoder' \in EncFlush(encoder, session.t * TicksPerSecond - session.te)
    /\ session' = [session EXCEPT !.pc = "loop", !.t = @ + 1]
    /\ NotSink

\* encode: enc.Flush() after the loop; the timeout is 1e9
LastFlush ==
    /\ session.pc = "last"
    /\ encoder' \in EncFlush(encoder, MaxDuration + 1)
    /\ session' = [session EXCEPT !.pc = "close"]
    /\ NotSink

\* encode: enc.Close()
LastClose ==
    /\ session.pc = "close"
    /\ encoder' = EncClose(encoder)
    /\ session' = [session EXCEPT !.pc = "done"]
    /\ NotSink

NextSink == SinkTick \/ LoopTest \/ LoopFlush \/ LastFlush \/ LastClose

SpecSink == InitSink /\ [][NextSink]_vars

-----------------------------------------------------------------------------
(* C28: the sink after its deletion *)

\* C28: no call of the encode command goes through m_sink after Close
\* has deleted the sink
C28_SinkLive == ~encoder.deref

\* C28, for Close alone: a Close that finds the sink deleted does not go
\* through m_sink
C28_CloseSafe ==
    [][ session.pc = "close" => encoder'.deref = encoder.deref ]_vars

-----------------------------------------------------------------------------
(* Specification SpecSample: DemodDecoder::DecodeWindow sampling the bit
   levels of its bytes and tuning its clock.  Positions are samples, a
   nominal byte is half a window long; the clock is kept in fixed point,
   1/1600 of the reference period, divisions rounding down. *)

MaxOnsets == 3    \* onsets the detector finds in one window
MaxWindows == 5   \* longest clip interval, in quarters of a window

\* m_t_ref, and m_dt_min and m_dt_max: .07 and .25 of it
TRef == 100 * 16

DtMin == 7 * 16

DtMax == 25 * 16

\* 209 bins, in samples of the model
ByteTime == 2 * THalfByte(TRUE)

\* DemodDecoder::DemodDecoder
NewSampler(end_pos) ==
    [open |-> TRUE, m_window_offs |-> FirstWindowOffs, m_end_pos |-> end_pos,
     m_last_byte_onset |-> -1, m_boundary_byte_onset |-> -1,
     m_t_clk |-> TRef, m_dt_clk |-> DtMax,
     m_byte_buf |-> <<>>]

\* the value interp_lin takes in place of one outside 0..cnt-1
ImplicitZero == -1

\* interp_lin(vals, cnt, x), by the places y0 and y1 come from; x0 is
\* floor(x)
interp_lin(cnt, x0) ==
    <<IF x0 >= 0 /\ x0 < cnt THEN x0 ELSE ImplicitZero,
      IF x0 + 1 >= 0 /\ x0 + 1 < cnt THEN x0 + 1 ELSE ImplicitZero>>

\* floor of x = x0 + ((16.0/209)*b + (8.0/209))*(x1-x0)
SamplePos(x0, x1, b) == x0 + ((16 * b + 8) * (x1 - x0)) \div 209

\* levels[0][b] = interp_lin(m_buf0, m_end_pos, x), for the 13 bits
SampleLevels(m, x0, x1) ==
    [b \in 0..12 |-> interp_lin(m.m_end_pos, SamplePos(x0, x1, b))]

\* variant of the clock tuning that narrows on the second perfect byte of
\* a run only
Tune_RunOfTwo(m, perfect, run, period) ==
    IF perfect /\ run >= 2
    THEN [m EXCEPT !.m_t_clk = (15 * @ + period) \div 16,
                   !.m_dt_clk = (15 * @ + DtMin) \div 16]
    ELSE [m EXCEPT !.m_t_clk = (15 * @ + TRef) \div 16,
                   !.m_dt_clk = (15 * @ + DtMax) \div 16]

\* tune the sync search window; run is perfect_byte_run after its update
Tune(m, perfect, run, period) ==
    IF perfect
    THEN [m EXCEPT !.m_t_clk = (15 * @ + period) \div 16,
                   !.m_dt_clk = (15 * @ + DtMin) \div 16]
    ELSE [m EXCEPT !.m_t_clk = (15 * @ + TRef) \div 16,
                   !.m_dt_clk = (15 * @ + DtMax) \div 16]

\* DemodDecoder::DecodeWindow: the loop over the onsets but the last;
\* perfect[i] tells whether the byte at onset i has neither error
RECURSIVE SampleOnsets(_, _, _, _, _, _)
SampleOnsets(m, onsets, perfect, i, right_limit, perfect_byte_run) ==
    IF i >= Len(onsets) - 1 THEN m
    ELSE LET onset == onsets[i + 1]
             x0 == onset - m.m_window_offs
             x1 == onsets[i + 2] - m.m_window_offs
             skip == \/ x0 >= right_limit
                     \/ m.m_last_byte_onset >= 0
                        /\ onset - m.m_last_byte_onset < THalfByte(TRUE)
                     \/ onset < StartPos - THalfByte(TRUE)
                     \/ onset > m.m_end_pos
             run == IF perfect[i + 1] THEN perfect_byte_run + 1 ELSE 0
             period == ((x1 - x0) * TRef) \div ByteTime
             tuned == Tune(m, perfect[i + 1], run, period)
             nx == [tuned EXCEPT
                      !.m_last_byte_onset = onset,
                      !.m_boundary_byte_onset =
                          IF perfect[i + 1] /\ run >= 2 THEN onset ELSE @,
                      !.m_byte_buf =
                          Append(@, [x0 |-> x0, x1 |-> x1,
                                     levels |-> SampleLevels(m, x0, x1),
                                     perfect |-> perfect[i + 1],
                                     run |-> run,
                                     period |-> period,
                                     t0 |-> m.m_t_clk, dt0 |-> m.m_dt_clk,
                                     t1 |-> tuned.m_t_clk,
                                     dt1 |-> tuned.m_dt_clk,
                                     boundary |->
                                         perfect[i + 1] /\ run >= 2])]
         IN  IF skip
             THEN SampleOnsets(m, onsets, perfect, i + 1, right_limit,
                               perfect_byte_run)
             ELSE SampleOnsets(nx, onsets, perfect, i + 1, right_limit, run)

\* the onsets the detector may find in the window at offs: any increasing
\* list of positions a whole number of half bytes into the window
OnsetMenu(offs) ==
    { q \in Increasing(offs, offs + WindowLen - 1, MaxOnsets) :
        \A i \in 1..Len(q) : (q[i] - offs) % THalfByte(TRUE) = 0 }

InitSample ==
    /\ ParserInit
    /\ hist = <<>>
    /\ flushed = FALSE
    /\ archive = NoArchive
    /\ tape = <<>>
    /\ dbyte = NoByte
    /\ NoDecoder
    /\ encoder = NoBackend /\ NoSound
    /\ emitted = <<>>
    /\ dual = NoBackend
    /\ \E k \in 1..MaxWindows : demod = NewSampler(k * WindowQuarter)

\* DemodDecoder::DecodeWindow, on the onsets the detector finds and the
\* bits the levels give
SampleWindow ==
    /\ demod.m_window_offs < demod.m_end_pos
    /\ \E onsets \in OnsetMenu(demod.m_window_offs) :
         \E perfect \in [1..MaxOnsets -> BOOLEAN] :
            /\ \A j \in 1..MaxOnsets : j >= Len(onsets) => ~perfect[j]
            /\ LET last_window ==
                       demod.m_window_offs + HopSize >= demod.m_end_pos
                   m == SampleOnsets([demod EXCEPT !.m_byte_buf = <<>>],
                                     onsets, perfect, 0,
                                     RightLimit(last_window), 0)
               IN  demod' = [m EXCEPT !.m_window_offs = @ + HopSize]
    /\ UNCHANGED <<dual, emitted>>
    /\ NotWindowed

NextSample == SampleWindow

SpecSample == InitSample /\ [][NextSample]_vars

-----------------------------------------------------------------------------
(* C29: the bit levels come from the window buffer *)

\* the bytes the latest window sampled
Sampled == { demod.m_byte_buf[i] : i \in 1..Len(demod.m_byte_buf) }

\* C29: for a byte whose onsets x0 < x1 lie inside the window buffer,
\* none of the 13 sampling positions takes the implicit zero of
\* interp_lin
C29_AllRead ==
    \A e \in Sampled :
        (0 <= e.x0 /\ e.x0 < e.x1 /\ e.x1 < WindowLen) =>
            \A b \in 0..12 :
                /\ e.levels[b][1] # ImplicitZero
                /\ e.levels[b][2] # ImplicitZero

\* C29, for a clip interval that is not shorter than a window: every
\* position is read from the buffer
C29_LongClip ==
    demod.m_end_pos >= WindowLen =>
        \A e \in Sampled : \A b \in 0..12 :
            /\ e.levels[b][1] \in e.x0..e.x1
            /\ e.levels[b][2] \in e.x0..e.x1

-----------------------------------------------------------------------------
(* C30: tuning of the clock search window *)

\* the clock after the byte is the clock before it pulled, with 15/16
\* decay, toward the measured period and m_dt_min
Narrowed(e) ==
    /\ e.t1 = (15 * e.t0 + e.period) \div 16
    /\ e.dt1 = (15 * e.dt0 + DtMin) \div 16

\* the clock after the byte is the clock before it pulled toward the
\* reference period and m_dt_max
Widened(e) ==
    /\ e.t1 = (15 * e.t0 + TRef) \div 16
    /\ e.dt1 = (15 * e.dt0 + DtMax) \div 16

\* C30 as stated: the window is narrowed only on a run of at least two
\* perfect bytes, and widened in every other case
C30_AsStated ==
    \A e \in Sampled :
        IF e.run >= 2 THEN Narrowed(e) ELSE Widened(e)

\* C30 amended: the window is narrowed on every perfect byte, the first
\* of a run and a lone one included, and widened on every byte with a
\* sync or parity error; a run of at least two perfect bytes in one
\* window is what notes the boundary onset for the next window
C30_Tuned ==
    \A e \in Sampled :
        /\ IF e.perfect
           THEN Narrowed(e) /\ ~Widened(e)
           ELSE Widened(e) /\ ~Narrowed(e)
        /\ e.boundary <=> (e.perfect /\ e.run >= 2)

\* a window decoded a lone perfect byte after an imperfect one: the
\* search window was narrowed and no boundary onset was noted
C30_Witness ==
    /\ Len(demod.m_byte_buf) = 2
    /\ ~demod.m_byte_buf[1].perfect
    /\ demod.m_byte_buf[2].perfect /\ demod.m_byte_buf[2].run = 1
    /\ demod.m_byte_buf[2].dt1 < demod.m_byte_buf[2].dt0
    /\ demod.m_dt_clk = demod.m_byte_buf[2].dt1
    /\ demod.m_boundary_byte_onset = -1

\* a window decoded two perfect bytes in a row: the second one set the
\* boundary onset
C30_WitnessRun ==
    /\ Len(demod.m_byte_buf) = 2
    /\ demod.m_byte_buf[1].perfect /\ demod.m_byte_buf[2].perfect
    /\ demod.m_byte_buf[2].run = 2 /\ demod.m_byte_buf[2].boundary
    /\ demod.m_boundary_byte_onset = demod.m_last_byte_onset

====
